---- MODULE Spec2Model ----
(***************************************************************************)
(* slurm-waiting-times: the sacct record parser, the runtime-constraint    *)
(* expressions, the job-type classifier, the row filter, the bin count,    *)
(* the histogram's value substitution, two-panel split and tick placement, *)
(* and the control flow of main, as state machines over character-level    *)
(* text.                                                                   *)
(*                                                                         *)
(* A Python str is a sequence of one-character strings.  None is the empty *)
(* tuple and a present optional value x is the one-element tuple <<x>>.    *)
(***************************************************************************)
EXTENDS Integers, Sequences, FiniteSets, TLC

VARIABLES
    \* parse_sacct_output (sacct.py)
    consumed,       \* the physical lines of output.splitlines() iterated so far
    pending_lines,  \* the accumulation buffer
    raw_row,        \* the joined buffer of the last iteration that appended
    rows,           \* the rows emitted so far
    n_processed,    \* number of calls of process_parts
    n_malformed,    \* number of "Skipping malformed sacct row" warnings
    finished,       \* the loop is over and rows has been returned
    \* process_parts on one already split record
    parts,          \* the twelve fields handed to process_parts
    parts_done,     \* process_parts has run on parts
    \* _parse_runtime_value / RuntimeConstraint.matches (cli.py, processing.py)
    rt_value,       \* the --runtime expression
    rt_state,       \* "input" | "parsed" | "error" | "built"
    rt_constraint,  \* the RuntimeConstraint (meaningful unless rt_state is input/error)
    rt_probe,       \* the value last handed to matches, or None
    rt_result,      \* what matches returned for rt_probe
    \* determine_job_type (processing.py)
    jt_row,         \* [nodes, alloc_tres] of the row classified
    jt_state,       \* "input" | "done"
    jt_gpu_count,   \* the local gpu_count of determine_job_type
    jt_result,      \* the job type returned, or None
    \* filter_rows (processing.py)
    f_rows,         \* the rows argument
    f_opts,         \* the keyword arguments of the call
    f_state,        \* "call" | "loop" | "returned" | "type_error"
    f_pos,          \* number of rows the loop has gone through
    filtered,       \* the list of records built so far
    \* freedman_diaconis_bins (time_utils.py)
    fd_values,      \* the values argument
    fd_state,       \* "input" | "done" | "error"
    fd_bins,        \* the number of bins returned
    \* create_histogram (histogram.py)
    h_values,       \* prepare_histogram_values(records): the waits, whole numbers
    h_bins,         \* the local bins: the argument, then the computed count, or None
    h_state,        \* "call" | "binned" | "adjusted" | "split" | "panels" | "error"
    h_adjusted,     \* adjusted_values, in units of 1/Scale
    h_cutoff,       \* 20 * typical_cutoff, in units of 1/Scale
    h_typical,      \* typical_values
    h_tail,         \* tail_values
    h_panels,       \* what was binned: the data and bin edges of the two panels
    \* _nice_ticks (histogram.py)
    tk_args,        \* [min_value, max_value, use_seconds], numbers in units of 1/TickScale
    tk_state,       \* "input" | "done"
    tk_ticks,       \* the ticks returned, in units of 1/TickScale
    \* main (cli.py)
    m_args,         \* the parsed command line and what the environment will answer
    m_pc,           \* the statement main is at
    m_locals,       \* bins, max_wait, runtime_constraints, start_dt, end_dt
    m_records,      \* records, once filter_rows has returned
    m_status,       \* the value main returned, or None
    m_sacct_runs,   \* number of times run_sacct was called
    m_out,          \* what was printed, in order
    m_csv_written,  \* write_results_csv was called
    m_hist_calls    \* number of calls of create_histogram

vars == <<consumed, pending_lines, raw_row, rows, n_processed, n_malformed, finished,
          parts, parts_done, rt_value, rt_state, rt_constraint, rt_probe, rt_result,
          jt_row, jt_state, jt_gpu_count, jt_result,
          f_rows, f_opts, f_state, f_pos, filtered,
          fd_values, fd_state, fd_bins, h_values, h_bins, h_state, h_adjusted,
          h_cutoff, h_typical, h_tail, h_panels, tk_args, tk_state, tk_ticks,
          m_args, m_pc, m_locals, m_records, m_status, m_sacct_runs, m_out,
          m_csv_written, m_hist_calls>>

parserVars == <<consumed, pending_lines, raw_row, rows, n_processed, n_malformed, finished>>
partsVars == <<parts, parts_done>>
rtVars == <<rt_value, rt_state, rt_constraint, rt_probe, rt_result>>
jtVars == <<jt_row, jt_state, jt_gpu_count, jt_result>>
filterVars == <<f_rows, f_opts, f_state, f_pos, filtered>>
\* the variables of the operations written after the classifier
binVars == <<fd_values, fd_state, fd_bins>>
histVars == <<h_values, h_bins, h_state, h_adjusted, h_cutoff, h_typical, h_tail, h_panels>>
tickVars == <<tk_args, tk_state, tk_ticks>>
mainVars == <<m_args, m_pc, m_locals, m_records, m_status, m_sacct_runs, m_out,
              m_csv_written, m_hist_calls>>
laterVars == <<filterVars, binVars, histVars, tickVars, mainVars>>

None == <<>>
Some(x) == <<x>>

(***************************************************************************)
(* Text                                                                    *)
(***************************************************************************)
Digits == {"0", "1", "2", "3", "4", "5", "6", "7", "8", "9"}
Whitespace == {" ", "\t", "\n"}

UpperLetters == <<"A", "B", "C", "D", "E", "F", "G", "H", "I", "J", "K", "L", "M",
                  "N", "O", "P", "Q", "R", "S", "T", "U", "V", "W", "X", "Y", "Z">>
LowerLetters == <<"a", "b", "c", "d", "e", "f", "g", "h", "i", "j", "k", "l", "m",
                  "n", "o", "p", "q", "r", "s", "t", "u", "v", "w", "x", "y", "z">>

LowerChar(c) ==
    IF \E i \in 1..26 : UpperLetters[i] = c
    THEN LowerLetters[CHOOSE i \in 1..26 : UpperLetters[i] = c]
    ELSE c

\* str.lower()
Lower(s) == [i \in 1..Len(s) |-> LowerChar(s[i])]

DigitVal(c) ==
    CASE c = "0" -> 0 [] c = "1" -> 1 [] c = "2" -> 2 [] c = "3" -> 3 [] c = "4" -> 4
      [] c = "5" -> 5 [] c = "6" -> 6 [] c = "7" -> 7 [] c = "8" -> 8 [] c = "9" -> 9

IsDigits(s) == Len(s) > 0 /\ \A i \in 1..Len(s) : s[i] \in Digits

RECURSIVE DigitsVal(_)
DigitsVal(s) ==
    IF s = <<>> THEN 0
    ELSE 10 * DigitsVal(SubSeq(s, 1, Len(s) - 1)) + DigitVal(s[Len(s)])

\* index of the first occurrence of character c in s, 0 when absent
IndexOf(s, c) ==
    LET I == {i \in 1..Len(s) : s[i] = c}
    IN  IF I = {} THEN 0 ELSE CHOOSE i \in I : \A j \in I : i <= j

\* number of occurrences of character c in s
Count(s, c) == Cardinality({i \in 1..Len(s) : s[i] = c})

\* str.strip()
Strip(s) ==
    LET I == {i \in 1..Len(s) : s[i] \notin Whitespace}
    IN  IF I = {} THEN <<>>
        ELSE SubSeq(s, CHOOSE i \in I : \A j \in I : i <= j,
                       CHOOSE i \in I : \A j \in I : i >= j)

\* str.startswith(p)
StartsWith(s, p) == Len(s) >= Len(p) /\ SubSeq(s, 1, Len(p)) = p

\* s[n:]
Drop(s, n) == SubSeq(s, n + 1, Len(s))

\* sep.join(items) for a one-character separator
RECURSIVE Join(_, _)
Join(items, sep) ==
    IF items = <<>> THEN <<>>
    ELSE IF Len(items) = 1 THEN items[1]
    ELSE items[1] \o <<sep>> \o Join(Tail(items), sep)

\* s.split(sep, maxsplit) for a one-character separator: at most maxsplit splits,
\* the remainder of the string (separators included) is the last element
RECURSIVE SplitMax(_, _, _)
SplitMax(s, sep, maxsplit) ==
    LET i == IndexOf(s, sep)
    IN  IF maxsplit = 0 \/ i = 0 THEN <<s>>
        ELSE <<SubSeq(s, 1, i - 1)>> \o SplitMax(Drop(s, i), sep, maxsplit - 1)

(***************************************************************************)
(* time_utils.py                                                           *)
(***************************************************************************)
IsLeap(y) == (y % 4 = 0 /\ y % 100 # 0) \/ y % 400 = 0

DaysInMonth(y, m) ==
    IF m = 2 THEN (IF IsLeap(y) THEN 29 ELSE 28)
    ELSE IF m \in {4, 6, 9, 11} THEN 30 ELSE 31

RECURSIVE DaysBeforeMonth(_, _)
DaysBeforeMonth(y, m) ==
    IF m = 1 THEN 0 ELSE DaysBeforeMonth(y, m - 1) + DaysInMonth(y, m - 1)

\* datetime.toordinal(): day number in the proleptic Gregorian calendar
Ordinal(y, m, d) ==
    365 * (y - 1) + ((y - 1) \div 4) - ((y - 1) \div 100) + ((y - 1) \div 400)
        + DaysBeforeMonth(y, m) + d

\* Seconds between midnight of 2024-01-01 and midnight of the given day: datetimes
\* are kept as offsets from that instant, in the one timezone handed to the parser.
EpochSeconds(y, m, d) == (Ordinal(y, m, d) - Ordinal(2024, 1, 1)) * 86400

\* parse_datetime with the error swallowed: an unrecognised value becomes the epoch
parse_datetime_lenient(value) == IF Strip(value) = <<>> THEN None ELSE Some(0)

\* parse_datetime on the date-only forms: "YYYY-MM-DD" (datetime.fromisoformat, and
\* "%Y-%m-%d" for unpadded months and days) and "YYYY/MM/DD" ("%Y/%m/%d").  The value
\* is stripped first; an empty or unrecognised value raises ValueError (None here).
parse_datetime(value) ==
    LET v == Strip(value)
        sep == IF Count(v, "-") > 0 THEN "-" ELSE "/"
        f == SplitMax(v, sep, -1)
    IN  IF /\ Len(f) = 3
           /\ Len(f[1]) = 4 /\ IsDigits(f[1])
           /\ Len(f[2]) \in 1..2 /\ IsDigits(f[2])
           /\ Len(f[3]) \in 1..2 /\ IsDigits(f[3])
           /\ DigitsVal(f[1]) >= 1
           /\ DigitsVal(f[2]) \in 1..12
           /\ DigitsVal(f[3]) \in 1..DaysInMonth(DigitsVal(f[1]), DigitsVal(f[2]))
        THEN Some(EpochSeconds(DigitsVal(f[1]), DigitsVal(f[2]), DigitsVal(f[3])))
        ELSE None

\* parse_duration_to_seconds: "HH:MM:SS" or "D-HH:MM:SS", minutes and seconds in
\* 0..59; anything else raises ValueError (None here).
parse_duration_to_seconds(value) ==
    LET d == SplitMax(value, "-", 1)
        hasDays == Len(d) = 2
        clock == IF hasDays THEN d[2] ELSE value
        f == SplitMax(clock, ":", -1)
    IN  IF /\ hasDays => IsDigits(d[1])
           /\ Len(f) = 3
           /\ \A i \in 1..3 : IsDigits(f[i])
           /\ DigitsVal(f[2]) <= 59
           /\ DigitsVal(f[3]) <= 59
        THEN Some((IF hasDays THEN DigitsVal(d[1]) * 86400 ELSE 0)
                  + DigitsVal(f[1]) * 3600 + DigitsVal(f[2]) * 60 + DigitsVal(f[3]))
        ELSE None

\* int(s) with the ValueError turned into 0
PyInt_zero(s) == IF IsDigits(s) THEN Some(DigitsVal(s)) ELSE Some(0)

\* int(s) of an already stripped string: an optional sign, then digits in which
\* single underscores may separate digits; anything else raises ValueError (None).
PyInt(s) ==
    LET signed == Len(s) > 0 /\ s[1] \in {"+", "-"}
        body == IF signed THEN Tail(s) ELSE s
        groups == SplitMax(body, "_", -1)
        digits == SelectSeq(body, LAMBDA c : c # "_")
    IN  IF \A i \in 1..Len(groups) : IsDigits(groups[i])
        THEN Some(IF signed /\ s[1] = "-" THEN 0 - DigitsVal(digits) ELSE DigitsVal(digits))
        ELSE None

(***************************************************************************)
(* sacct.py                                                                *)
(***************************************************************************)
s_unknown == <<"u", "n", "k", "n", "o", "w", "n">>
s_none == <<"n", "o", "n", "e">>
s_na == <<"n", "/", "a">>
s_invalid == <<"i", "n", "v", "a", "l", "i", "d">>
s_null == <<"(", "n", "u", "l", "l", ")">>

INVALID_START_VALUES == {s_unknown, s_none, <<>>, s_na, s_invalid}
EMPTY_FIELD_VALUES == {<<>>, s_none, s_na, s_unknown, s_null}

\* "x.strip() or None", then None as well when the lowered value is an empty-field token
OptionalField(field) ==
    LET v == Strip(field)
    IN  IF v = <<>> \/ Lower(v) \in EMPTY_FIELD_VALUES THEN None ELSE Some(v)

\* process_parts: the rows it appends for one split record (none or one)
process_parts(p) ==
    LET job_id == p[1]
        job_id_raw == p[2]
        job_name == p[3]
        submit_line == p[4]
        user == p[5]
        submit == p[6]
        start == p[7]
        state == p[8]
        partition == p[9]
        raw_nodes == p[10]
        alloc_tres == p[11]
        elapsed == p[12]
        submit_dt == parse_datetime(submit)
        start_dt == parse_datetime(start)
        raw_nodes_stripped == Strip(raw_nodes)
        nodes == IF raw_nodes_stripped # <<>>
                    /\ Lower(raw_nodes_stripped) \notin EMPTY_FIELD_VALUES
                 THEN PyInt(raw_nodes_stripped)
                 ELSE None
        elapsed_value == Strip(elapsed)
        elapsed_seconds == IF elapsed_value # <<>>
                              /\ Lower(elapsed_value) \notin EMPTY_FIELD_VALUES
                           THEN parse_duration_to_seconds(elapsed_value)
                           ELSE None
        job_id_raw_value == IF Strip(job_id_raw) # <<>>
                            THEN Strip(job_id_raw)
                            ELSE SplitMax(job_id, ".", 1)[1]
    IN  IF Lower(Strip(start)) \in INVALID_START_VALUES THEN <<>>
        ELSE IF submit_dt = None \/ start_dt = None THEN <<>>
        ELSE << [job_id |-> job_id,
                 job_id_raw |-> job_id_raw_value,
                 job_name |-> OptionalField(job_name),
                 submit_line |-> OptionalField(submit_line),
                 user |-> user,
                 submit_time |-> submit_dt[1],
                 start_time |-> start_dt[1],
                 state |-> state,
                 partition |-> partition,
                 nodes |-> nodes,
                 alloc_tres |-> OptionalField(alloc_tres),
                 elapsed_seconds |-> elapsed_seconds] >>

\* split with maxsplit one too small
SplitRecord_short(buffer) == SplitMax(buffer, "|", 10)

\* raw_row.split("|", 11)
SplitRecord(buffer) == SplitMax(buffer, "|", 11)

\* ---- the physical lines fed to the parser ----
MaxLines == 4

t_d1 == <<"2", "0", "2", "4", "-", "0", "5", "-", "0", "1">>
t_d2 == <<"2", "0", "2", "4", "-", "0", "5", "-", "0", "2">>
t_notstarted == <<" ", "U", "n", "k", "n", "o", "w", "n", " ">>
t_sbatch == <<"s", "b">>
t_gpu1 == <<"g", "r", "e", "s", "/", "g", "p", "u", "=", "1">>
t_halfhour == <<"0", "0", ":", "3", "0", ":", "0", "0">>

Rec(job, cmd, submit, start, nodes, tres, elapsed) ==
    Join(<<job, job, <<"j">>, cmd, <<"u">>, submit, start, <<"C", "D">>, <<"p">>,
           nodes, tres, elapsed>>, "|")

L_good == Rec(<<"1">>, t_sbatch, t_d1, t_d2, <<"2">>, t_gpu1, t_halfhour)
L_notstarted == Rec(<<"2">>, t_sbatch, t_d1, t_notstarted, <<"2">>, t_gpu1, t_halfhour)
L_badsubmit == Rec(<<"3">>, t_sbatch, <<"x">>, t_d2, <<"2">>, t_gpu1, t_halfhour)
L_unknowns == Rec(<<"4">>, <<>>, t_d2, t_d1, <<"N", "/", "A">>, <<"(", "n", "u", "l", "l", ")">>, <<"1", ":", "6", "0", ":", "0", "0">>)
L_head == <<"5", "|", "5", "|", "j", "|", "s", "a">>
L_cont == <<" ", "e", "1">>
L_tail == <<" ", "|", "u", "|", "2", "0", "2", "4", "-", "0", "5", "-", "0", "1", "|", "2", "0", "2", "4", "-", "0", "5", "-", "0", "2", "|", "C", "D", "|", "p", "|", "1", "|", "c", "p", "u", "=", "4", "|", "0", "0", ":", "0", "5", ":", "0", "0">>
L_blank == <<" ">>
L_over == L_good \o <<"|", "x">>
L_tailover == L_tail \o <<"|", "x">>

PhysicalLines ==
    {L_good, L_notstarted, L_badsubmit, L_unknowns, L_head, L_cont, L_tail, L_blank,
     L_over, L_tailover}

\* ---- parse_sacct_output ----
\* the loop body with every blank line ignored, whatever the buffer holds
ReadLine_skipblank(raw_line) ==
    /\ ~finished
    /\ Len(consumed) < MaxLines
    /\ consumed' = Append(consumed, raw_line)
    /\ finished' = finished
    /\ IF Strip(raw_line) = <<>>
       THEN UNCHANGED <<pending_lines, raw_row, rows, n_processed, n_malformed>>
       ELSE LET buffer == Join(Append(pending_lines, raw_line), "\n")
                fields == SplitRecord(buffer)
            IN  /\ raw_row' = buffer
                /\ IF Len(fields) < 12
                   THEN /\ pending_lines' = Append(pending_lines, raw_line)
                        /\ UNCHANGED <<rows, n_processed, n_malformed>>
                   ELSE IF Len(fields) > 12
                   THEN /\ n_malformed' = n_malformed + 1
                        /\ pending_lines' = <<>>
                        /\ UNCHANGED <<rows, n_processed>>
                   ELSE /\ rows' = rows \o process_parts(fields)
                        /\ n_processed' = n_processed + 1
                        /\ pending_lines' = <<>>
                        /\ UNCHANGED n_malformed
    /\ UNCHANGED <<partsVars, rtVars, jtVars, laterVars>>

\* one iteration of "for raw_line in output.splitlines()"
ReadLine(raw_line) ==
    /\ ~finished
    /\ Len(consumed) < MaxLines
    /\ consumed' = Append(consumed, raw_line)
    /\ finished' = finished
    /\ IF pending_lines = <<>> /\ Strip(raw_line) = <<>>
       THEN UNCHANGED <<pending_lines, raw_row, rows, n_processed, n_malformed>>
       ELSE LET buffer == Join(Append(pending_lines, raw_line), "\n")
                fields == SplitRecord(buffer)
            IN  /\ raw_row' = buffer
                /\ IF Len(fields) < 12
                   THEN /\ pending_lines' = Append(pending_lines, raw_line)
                        /\ UNCHANGED <<rows, n_processed, n_malformed>>
                   ELSE IF Len(fields) > 12
                   THEN /\ n_malformed' = n_malformed + 1
                        /\ pending_lines' = <<>>
                        /\ UNCHANGED <<rows, n_processed>>
                   ELSE /\ rows' = rows \o process_parts(fields)
                        /\ n_processed' = n_processed + 1
                        /\ pending_lines' = <<>>
                        /\ UNCHANGED n_malformed
    /\ UNCHANGED <<partsVars, rtVars, jtVars, laterVars>>

\* the end of the loop without the warning for a buffer left over
EndOfInput_silent ==
    /\ ~finished
    /\ finished' = TRUE
    /\ UNCHANGED <<consumed, pending_lines, raw_row, rows, n_processed, n_malformed>>
    /\ UNCHANGED <<partsVars, rtVars, jtVars, laterVars>>

\* the end of the loop: a buffer left over is warned about, rows is returned
EndOfInput ==
    /\ ~finished
    /\ finished' = TRUE
    /\ n_malformed' = IF pending_lines # <<>> THEN n_malformed + 1 ELSE n_malformed
    /\ UNCHANGED <<consumed, pending_lines, raw_row, rows, n_processed>>
    /\ UNCHANGED <<partsVars, rtVars, jtVars, laterVars>>

IdleParts == parts = <<>> /\ parts_done = FALSE
IdleRuntime ==
    /\ rt_value = <<>> /\ rt_state = "idle" /\ rt_constraint = <<>>
    /\ rt_probe = None /\ rt_result = FALSE
IdleJobType == jt_row = <<>> /\ jt_state = "idle" /\ jt_gpu_count = 0 /\ jt_result = None
IdleFilter ==
    /\ f_rows = <<>> /\ f_opts = <<>> /\ f_state = "idle" /\ f_pos = 0 /\ filtered = <<>>
\* nothing of the operations written after the classifier has been called
IdleBins == fd_values = <<>> /\ fd_state = "idle" /\ fd_bins = 0
IdleHistogram ==
    /\ h_values = <<>> /\ h_bins = None /\ h_state = "idle" /\ h_adjusted = <<>>
    /\ h_cutoff = 0 /\ h_typical = <<>> /\ h_tail = <<>> /\ h_panels = <<>>
IdleTicks == tk_args = <<>> /\ tk_state = "idle" /\ tk_ticks = <<>>
IdleMain ==
    /\ m_args = <<>> /\ m_pc = "idle" /\ m_locals = <<>> /\ m_records = <<>>
    /\ m_status = None /\ m_sacct_runs = 0 /\ m_out = <<>>
    /\ m_csv_written = FALSE /\ m_hist_calls = 0
IdleLater == IdleFilter /\ IdleBins /\ IdleHistogram /\ IdleTicks /\ IdleMain
IdleParser ==
    /\ consumed = <<>> /\ pending_lines = <<>> /\ raw_row = <<>> /\ rows = <<>>
    /\ n_processed = 0 /\ n_malformed = 0 /\ finished = FALSE

Init == IdleParser /\ IdleParts /\ IdleRuntime /\ IdleJobType /\ IdleLater

Next ==
    \/ \E raw_line \in PhysicalLines : ReadLine(raw_line)
    \/ EndOfInput

Spec == Init /\ [][Next]_vars

\* ---- process_parts on one record, field by field ----
JobIdTexts == {<<"7">>, <<"7", ".", "0">>}
JobIdRawTexts == {<<"7">>, <<>>}
SubmitLineTexts == {t_sbatch, <<"N", "o", "n", "e">>}
SubmitTexts == {t_d1, <<"x">>, <<>>}
NotStartedTexts == {t_notstarted, <<"N", "O", "N", "E">>, <<>>, <<"N", "/", "A">>, <<"I", "n", "v", "a", "l", "i", "d">>}
BadStampTexts == {<<"x">>, <<"2", "0", "2", "4", "-", "1", "3", "-", "0", "1">>}
StartTexts == {t_d2, <<"2", "0", "2", "4", "/", "0", "5", "/", "0", "3">>} \cup NotStartedTexts \cup BadStampTexts
GoodNodes == <<"2">>
UnknownNodeTexts == {<<" ", "N", "/", "A", " ">>, <<"x">>, <<>>}
NodeTexts == {GoodNodes, <<"+", "3">>} \cup UnknownNodeTexts
UnknownTresTexts == {s_null, <<" ">>, <<"N", "o", "n", "e">>}
TresTexts == {t_gpu1} \cup UnknownTresTexts
UnknownElapsedTexts == {<<"1", ":", "6", "0", ":", "0", "0">>, <<"U", "n", "k", "n", "o", "w", "n">>, <<>>}
ElapsedTexts == {t_halfhour, <<"1", "-", "0", "1", ":", "0", "0", ":", "0", "0">>} \cup UnknownElapsedTexts

PartsDomain ==
    {<<job, raw, <<"j">>, cmd, <<"u">>, submit, start, <<"C", "D">>, <<"p">>, nodes, tres, elapsed>> :
        job \in JobIdTexts, raw \in JobIdRawTexts, cmd \in SubmitLineTexts,
        submit \in SubmitTexts, start \in StartTexts, nodes \in NodeTexts,
        tres \in TresTexts, elapsed \in ElapsedTexts}

ProcessParts ==
    /\ ~parts_done
    /\ parts_done' = TRUE
    /\ rows' = rows \o process_parts(parts)
    /\ UNCHANGED <<parts, consumed, pending_lines, raw_row, n_processed, n_malformed, finished>>
    /\ UNCHANGED <<rtVars, jtVars, laterVars>>

InitFields ==
    /\ parts \in PartsDomain
    /\ parts_done = FALSE
    /\ IdleParser /\ IdleRuntime /\ IdleJobType /\ IdleLater

NextFields == ProcessParts

SpecFields == InitFields /\ [][NextFields]_vars

(***************************************************************************)
(* Properties of the record parser                                         *)
(***************************************************************************)
Delimiters(s) == Count(s, "|")

\* the step consumed a physical line and appended it to the buffer (it was not a
\* blank line met with an empty buffer)
AppendedLine ==
    /\ consumed' # consumed
    /\ ~(pending_lines = <<>> /\ Strip(consumed'[Len(consumed')]) = <<>>)

\* the newline-joined buffer right after that line was appended
JoinedBuffer == Join(Append(pending_lines, consumed'[Len(consumed')]), "\n")

C1_Step ==
    AppendedLine =>
        /\ Delimiters(JoinedBuffer) + 1 < 12 =>
              /\ pending_lines' = Append(pending_lines, consumed'[Len(consumed')])
              /\ rows' = rows
              /\ n_processed' = n_processed
        /\ Delimiters(JoinedBuffer) + 1 = 12 =>
              /\ n_processed' = n_processed + 1
              /\ pending_lines' = <<>>

C1_ThreeLines ==
    consumed = <<L_head, L_cont, L_tail>> =>
        /\ n_processed = 1
        /\ Len(rows) = 1
        /\ rows[1].job_id = <<"5">>
        /\ rows[1].submit_line = Some(<<"s", "a">> \o <<"\n">> \o <<" ", "e", "1">>)

C2_OvershootDiscarded ==
    [][(AppendedLine /\ Delimiters(JoinedBuffer) > 11) =>
          /\ rows' = rows
          /\ n_processed' = n_processed
          /\ n_malformed' = n_malformed + 1
          /\ pending_lines' = <<>>]_vars

NotStarted(field) == Lower(Strip(field)) \in INVALID_START_VALUES

\* the timestamp texts of PhysicalLines that datetime.fromisoformat accepts
ParsableStamps == {t_d1, t_d2}

\* the record committed by this step, split on every delimiter
CommittedFields == SplitMax(raw_row', "|", -1)

C3_Step ==
    /\ Len(rows') >= Len(rows) /\ SubSeq(rows', 1, Len(rows)) = rows
    /\ n_processed' = n_processed + 1 =>
          IF \/ NotStarted(CommittedFields[7])
             \/ CommittedFields[6] \notin ParsableStamps
             \/ CommittedFields[7] \notin ParsableStamps
          THEN rows' = rows
          ELSE /\ Len(rows') = Len(rows) + 1
               /\ rows'[Len(rows')].job_id = CommittedFields[1]

WellFormedStamps == parts[6] = t_d1 /\ parts[7] \in {t_d2, <<"2", "0", "2", "4", "/", "0", "5", "/", "0", "3">>}

\* the row of the same record with field i replaced by text
RowWith(i, text) == process_parts([parts EXCEPT ![i] = text])[1]

RuntimeConstraint(min_seconds, max_seconds, min_inclusive, max_inclusive) ==
    [min_seconds |-> min_seconds, max_seconds |-> max_seconds,
     min_inclusive |-> min_inclusive, max_inclusive |-> max_inclusive]

\* RuntimeConstraint.matches with every bound taken as inclusive
matches_inclusive(c, value) ==
    /\ c.min_seconds # None => value >= c.min_seconds[1]
    /\ c.max_seconds # None => value <= c.max_seconds[1]

\* RuntimeConstraint.matches
matches(c, value) ==
    IF c.min_seconds # None /\ value < c.min_seconds[1] THEN FALSE
    ELSE IF c.min_seconds # None /\ ~c.min_inclusive /\ value = c.min_seconds[1] THEN FALSE
    ELSE IF c.max_seconds # None /\ value > c.max_seconds[1] THEN FALSE
    ELSE IF c.max_seconds # None /\ ~c.max_inclusive /\ value = c.max_seconds[1] THEN FALSE
    ELSE TRUE

(***************************************************************************)
(* cli.py: _parse_runtime_value                                            *)
(*                                                                         *)
(* Each grammar form gives <<>> when the expression is not of that form,   *)
(* CliError when it raises, and Ok(constraint) when it returns.            *)
(***************************************************************************)
NoMatch == <<>>
CliError == <<"error">>
Ok(c) == <<"ok", c>>

s_shorter == <<"s", "h", "o", "r", "t", "e", "r", ":">>
s_longer == <<"l", "o", "n", "g", "e", "r", ":">>

\* s.partition(c)[2]: what follows the first c, empty when c is absent
AfterFirst(s, c) == IF IndexOf(s, c) = 0 THEN <<>> ELSE Drop(s, IndexOf(s, c))

\* the keywords with the bound left inclusive (the dataclass default)
ParseKeyword_inclusive(raw) ==
    LET lowered == Lower(raw)
        duration == AfterFirst(raw, ":")
        seconds == parse_duration_to_seconds(duration)
    IN  IF StartsWith(lowered, s_shorter)
        THEN IF duration = <<>> \/ seconds = None THEN CliError
             ELSE Ok(RuntimeConstraint(None, seconds, TRUE, TRUE))
        ELSE IF StartsWith(lowered, s_longer)
        THEN IF duration = <<>> \/ seconds = None THEN CliError
             ELSE Ok(RuntimeConstraint(seconds, None, TRUE, TRUE))
        ELSE NoMatch

\* "shorter:<duration>" and "longer:<duration>"
ParseKeyword(raw) ==
    LET lowered == Lower(raw)
        duration == AfterFirst(raw, ":")
        seconds == parse_duration_to_seconds(duration)
    IN  IF StartsWith(lowered, s_shorter)
        THEN IF duration = <<>> THEN CliError
             ELSE IF seconds = None THEN CliError
             ELSE Ok(RuntimeConstraint(None, seconds, TRUE, FALSE))
        ELSE IF StartsWith(lowered, s_longer)
        THEN IF duration = <<>> THEN CliError
             ELSE IF seconds = None THEN CliError
             ELSE Ok(RuntimeConstraint(seconds, None, FALSE, TRUE))
        ELSE NoMatch

\* [0-5]?\d
IsSexagesimal(s) ==
    \/ Len(s) = 1 /\ s[1] \in Digits
    \/ Len(s) = 2 /\ s[1] \in {"0", "1", "2", "3", "4", "5"} /\ s[2] \in Digits

\* one side of _RUNTIME_RANGE_PATTERN: (?:\d+-)?\d+:[0-5]?\d:[0-5]?\d
IsRangeDuration(s) ==
    LET d == SplitMax(s, "-", 1)
        clock == IF Len(d) = 2 THEN d[2] ELSE s
        f == SplitMax(clock, ":", -1)
    IN  /\ Len(d) = 2 => IsDigits(d[1])
        /\ Len(f) = 3
        /\ IsDigits(f[1]) /\ IsSexagesimal(f[2]) /\ IsSexagesimal(f[3])

\* the positions of a '-' that splits raw into two sides of the range pattern
RangeSplits(raw) ==
    {k \in 1..Len(raw) : /\ raw[k] = "-"
                         /\ IsRangeDuration(SubSeq(raw, 1, k - 1))
                         /\ IsRangeDuration(Drop(raw, k))}

\* the range without the start-exceeds-end check
ParseRange_unchecked(raw) ==
    IF RangeSplits(raw) = {} THEN NoMatch
    ELSE LET k == CHOOSE k \in RangeSplits(raw) : TRUE
             start_seconds == parse_duration_to_seconds(SubSeq(raw, 1, k - 1))
             end_seconds == parse_duration_to_seconds(Drop(raw, k))
         IN  IF start_seconds = None \/ end_seconds = None THEN CliError
             ELSE Ok(RuntimeConstraint(start_seconds, end_seconds, TRUE, TRUE))

\* "<duration>-<duration>"
ParseRange(raw) ==
    IF RangeSplits(raw) = {} THEN NoMatch
    ELSE LET k == CHOOSE k \in RangeSplits(raw) : TRUE
             start_seconds == parse_duration_to_seconds(SubSeq(raw, 1, k - 1))
             end_seconds == parse_duration_to_seconds(Drop(raw, k))
         IN  IF start_seconds = None \/ end_seconds = None THEN CliError
             ELSE IF start_seconds[1] > end_seconds[1] THEN CliError
             ELSE Ok(RuntimeConstraint(start_seconds, end_seconds, TRUE, TRUE))

\* the pairs with the one-character operators tried first
ComparisonPrefixes_singlefirst ==
    << <<<<"<">>, FALSE>>, <<<<">">>, FALSE>>, <<<<"=">>, TRUE>>,
       <<<<"<", "=">>, TRUE>>, <<<<">", "=">>, TRUE>> >>

\* the (prefix, inclusive) pairs in the order the loop tries them
ComparisonPrefixes ==
    << <<<<"<", "=">>, TRUE>>, <<<<">", "=">>, TRUE>>, <<<<"<">>, FALSE>>, <<<<">">>, FALSE>>, <<<<"=">>, TRUE>> >>

\* the constraint (or error) of the comparison whose prefix is the i-th pair
Comparison(raw, i) ==
    LET prefix == ComparisonPrefixes[i][1]
        inclusive == ComparisonPrefixes[i][2]
        seconds == parse_duration_to_seconds(Strip(Drop(raw, Len(prefix))))
    IN  IF seconds = None THEN CliError
        ELSE IF StartsWith(prefix, <<"<">>)
        THEN Ok(RuntimeConstraint(None, seconds, TRUE, inclusive))
        ELSE IF StartsWith(prefix, <<">">>)
        THEN Ok(RuntimeConstraint(seconds, None, inclusive, TRUE))
        ELSE Ok(RuntimeConstraint(seconds, seconds, TRUE, TRUE))

\* "<=d", ">=d", "<d", ">d", "=d": the first prefix of the loop that raw starts with
ParseComparison(raw) ==
    LET hits == {i \in 1..Len(ComparisonPrefixes) : StartsWith(raw, ComparisonPrefixes[i][1])}
    IN  IF hits = {} THEN NoMatch
        ELSE Comparison(raw, CHOOSE i \in hits : \A j \in hits : i <= j)

\* a bare duration whose parse error is swallowed into a constraint without bounds
ParseBare_unbounded(raw) ==
    LET seconds == parse_duration_to_seconds(raw)
    IN  IF seconds = None THEN Ok(RuntimeConstraint(None, None, TRUE, TRUE))
        ELSE Ok(RuntimeConstraint(seconds, seconds, TRUE, TRUE))

\* a bare duration
ParseBare(raw) ==
    LET seconds == parse_duration_to_seconds(raw)
    IN  IF seconds = None THEN CliError
        ELSE Ok(RuntimeConstraint(seconds, seconds, TRUE, TRUE))

\* _parse_runtime_value: CliError or Ok(constraint)
parse_runtime_value(value) ==
    IF value = <<>> \/ Strip(value) = <<>> THEN CliError
    ELSE LET raw == Strip(value)
         IN  IF ParseKeyword(raw) # NoMatch THEN ParseKeyword(raw)
             ELSE IF ParseRange(raw) # NoMatch THEN ParseRange(raw)
             ELSE IF ParseComparison(raw) # NoMatch THEN ParseComparison(raw)
             ELSE ParseBare(raw)

\* ---- the --runtime expressions fed to _parse_runtime_value ----
t_1h == <<"0", "1", ":", "0", "0", ":", "0", "0">>
t_2h == <<"0", "2", ":", "0", "0", ":", "0", "0">>

\* well-formed durations, each with its number of seconds
DurationTable ==
    {<<t_1h, 3600>>, <<t_halfhour, 1800>>, <<t_2h, 7200>>, <<<<"0", ":", "5", "9", ":", "5", "9">>, 3599>>,
     <<<<"1", "-", "0", "0", ":", "0", "0", ":", "0", "0">>, 86400>>}
DurationTexts == {d[1] : d \in DurationTable}
MalformedTexts == {<<"1", ":", "6", "0", ":", "0", "0">>, <<"1", ":", "0", "0", ":", "6", "0">>, <<"a", "b", "c">>, <<>>}

OperatorTexts == {<<"<", "=">>, <<">", "=">>, <<"<">>, <<">">>, <<"=">>}
KeywordTexts == {s_shorter, s_longer, <<"S", "h", "o", "r", "t", "e", "r", ":">>, <<"L", "O", "N", "G", "E", "R", ":">>}
UnknownPrefixTexts == {<<"=", "=">>, <<"=", "<">>, <<"!">>, <<"s", "h", "o", "r", "t", ":">>}

RuntimeValues ==
    {p \o d : p \in OperatorTexts \cup KeywordTexts \cup UnknownPrefixTexts \cup {<<>>},
              d \in DurationTexts \cup MalformedTexts}
    \cup {a \o <<"-">> \o b : a \in DurationTexts \cup {<<"1", ":", "6", "0", ":", "0", "0">>},
                              b \in DurationTexts \cup {<<"1", ":", "6", "0", ":", "0", "0">>}}
    \cup {<<" ">> \o p \o <<" ">> \o t_1h \o <<" ">> : p \in OperatorTexts}
    \cup {<<" ">>, <<"i", "n", "v", "a", "l", "i", "d">>}

\* the values handed to matches
RuntimeProbes == {0, 30, 1799, 1800, 3599, 3600, 3601, 7199, 7200, 7201, 86400}

\* the bounds of the constraints built directly
BoundValues == {None, Some(1800), Some(3600), Some(7200)}

\* ---- the actions ----
ParseRuntimeValue ==
    /\ rt_state = "input"
    /\ LET result == parse_runtime_value(rt_value)
       IN  IF result = CliError
           THEN rt_state' = "error" /\ UNCHANGED rt_constraint
           ELSE rt_state' = "parsed" /\ rt_constraint' = result[2]
    /\ UNCHANGED <<rt_value, rt_probe, rt_result>>
    /\ UNCHANGED <<parserVars, partsVars, jtVars, laterVars>>

\* RuntimeConstraint(min_seconds=..., max_seconds=..., min_inclusive=..., max_inclusive=...)
BuildConstraint(min_seconds, max_seconds, min_inclusive, max_inclusive) ==
    /\ rt_state = "new"
    /\ rt_state' = "built"
    /\ rt_constraint' = RuntimeConstraint(min_seconds, max_seconds, min_inclusive, max_inclusive)
    /\ UNCHANGED <<rt_value, rt_probe, rt_result>>
    /\ UNCHANGED <<parserVars, partsVars, jtVars, laterVars>>

\* constraint.matches(value)
Matches(value) ==
    /\ rt_state \in {"parsed", "built"}
    /\ rt_probe' = Some(value)
    /\ rt_result' = matches(rt_constraint, value)
    /\ UNCHANGED <<rt_value, rt_state, rt_constraint>>
    /\ UNCHANGED <<parserVars, partsVars, jtVars, laterVars>>

InitRuntime ==
    /\ \/ rt_state = "input" /\ rt_value \in RuntimeValues
       \/ rt_state = "new" /\ rt_value = <<>>
    /\ rt_constraint = <<>> /\ rt_probe = None /\ rt_result = FALSE
    /\ IdleParser /\ IdleParts /\ IdleJobType /\ IdleLater

NextRuntime ==
    \/ ParseRuntimeValue
    \/ \E lo \in BoundValues, hi \in BoundValues, li \in BOOLEAN, hi_incl \in BOOLEAN :
          BuildConstraint(lo, hi, li, hi_incl)
    \/ \E value \in RuntimeProbes : Matches(value)

SpecRuntime == InitRuntime /\ [][NextRuntime]_vars

(***************************************************************************)
(* Properties of the runtime constraints                                   *)
(***************************************************************************)
HasConstraint == rt_state \in {"parsed", "built"}
Parsed(text) == rt_state \in {"parsed", "error"} /\ rt_value = text
Accepts(value) == rt_probe = Some(value) => rt_result
Rejects(value) == rt_probe = Some(value) => ~rt_result

\* C5: matches(v) is true exactly when (no lower bound, or v > min, or v = min and
\* min_inclusive) and (no upper bound, or v < max, or v = max and max_inclusive);
\* RuntimeConstraint(max_seconds=3600, max_inclusive=False) rejects 3600, accepts 3599.
C5_MatchesBounds ==
    (HasConstraint /\ rt_probe # None) =>
        LET c == rt_constraint
            v == rt_probe[1]
        IN  /\ rt_result <=>
                 /\ \/ c.min_seconds = None
                    \/ v > c.min_seconds[1]
                    \/ v = c.min_seconds[1] /\ c.min_inclusive
                 /\ \/ c.max_seconds = None
                    \/ v < c.max_seconds[1]
                    \/ v = c.max_seconds[1] /\ c.max_inclusive
            /\ (c.min_seconds = None /\ c.max_seconds = Some(3600) /\ ~c.max_inclusive) =>
                 Rejects(3600) /\ Accepts(3599)

C5_Witness ==
    /\ rt_state = "built"
    /\ rt_constraint = RuntimeConstraint(None, Some(3600), TRUE, FALSE)
    /\ rt_probe = Some(3600)
    /\ ~rt_result

\* C6: "shorter:<d>" gives only an exclusive upper bound d, "longer:<d>" only an
\* exclusive lower bound d; "shorter:01:00:00" accepts 1800, rejects 3600 and 7200.
C6_Keywords ==
    /\ \A d \in DurationTable :
          /\ Parsed(s_shorter \o d[1]) =>
                /\ rt_state = "parsed"
                /\ rt_constraint.min_seconds = None
                /\ rt_constraint.max_seconds = Some(d[2])
                /\ ~rt_constraint.max_inclusive
          /\ Parsed(s_longer \o d[1]) =>
                /\ rt_state = "parsed"
                /\ rt_constraint.max_seconds = None
                /\ rt_constraint.min_seconds = Some(d[2])
                /\ ~rt_constraint.min_inclusive
    /\ Parsed(s_shorter \o t_1h) => Accepts(1800) /\ Rejects(3600) /\ Rejects(7200)

C6_Witness ==
    /\ rt_state = "parsed" /\ rt_value = s_shorter \o t_1h
    /\ rt_probe = Some(3600) /\ ~rt_result

\* C7: "<d1>-<d2>" gives the inclusive bounds [d1, d2] and fails when d1 > d2;
\* "01:00:00-02:00:00" accepts 3600 and 7200 and rejects 3599.
C7_Range ==
    /\ \A a \in DurationTable, b \in DurationTable :
          Parsed(a[1] \o <<"-">> \o b[1]) =>
              IF a[2] > b[2]
              THEN rt_state = "error"
              ELSE /\ rt_state = "parsed"
                   /\ rt_constraint = RuntimeConstraint(Some(a[2]), Some(b[2]), TRUE, TRUE)
    /\ Parsed(t_1h \o <<"-">> \o t_2h) => Accepts(3600) /\ Accepts(7200) /\ Rejects(3599)

C7_Witness ==
    /\ rt_state = "parsed" /\ rt_value = t_1h \o <<"-">> \o t_2h
    /\ rt_probe = Some(3599) /\ ~rt_result

\* C8: "<" gives only an exclusive upper bound, "<=" only an inclusive upper
\* bound, ">" only an exclusive lower bound, ">=" only an inclusive lower bound,
\* "=" and a bare duration both bounds equal and inclusive; "<=d" and ">=d" are
\* read as the two-character operator.
C8_Comparisons ==
    \A d \in DurationTable :
        /\ Parsed(<<"<">> \o d[1]) =>
              /\ rt_state = "parsed"
              /\ rt_constraint.min_seconds = None
              /\ rt_constraint.max_seconds = Some(d[2]) /\ ~rt_constraint.max_inclusive
        /\ Parsed(<<"<", "=">> \o d[1]) =>
              /\ rt_state = "parsed"
              /\ rt_constraint.min_seconds = None
              /\ rt_constraint.max_seconds = Some(d[2]) /\ rt_constraint.max_inclusive
        /\ Parsed(<<">">> \o d[1]) =>
              /\ rt_state = "parsed"
              /\ rt_constraint.max_seconds = None
              /\ rt_constraint.min_seconds = Some(d[2]) /\ ~rt_constraint.min_inclusive
        /\ Parsed(<<">", "=">> \o d[1]) =>
              /\ rt_state = "parsed"
              /\ rt_constraint.max_seconds = None
              /\ rt_constraint.min_seconds = Some(d[2]) /\ rt_constraint.min_inclusive
        /\ Parsed(<<"=">> \o d[1]) =>
              /\ rt_state = "parsed"
              /\ rt_constraint = RuntimeConstraint(Some(d[2]), Some(d[2]), TRUE, TRUE)
        /\ Parsed(d[1]) =>
              /\ rt_state = "parsed"
              /\ rt_constraint = RuntimeConstraint(Some(d[2]), Some(d[2]), TRUE, TRUE)

C8_Witness ==
    /\ rt_state = "parsed" /\ rt_value = <<"<", "=">> \o t_1h
    /\ rt_probe = Some(3600) /\ rt_result

\* expressions that are empty, of unknown syntax, or carry a malformed duration
InvalidRuntimeValues ==
    {<<>>, <<" ">>, <<"i", "n", "v", "a", "l", "i", "d">>}
    \cup {p \o d : p \in UnknownPrefixTexts, d \in DurationTexts}
    \cup {p \o d : p \in OperatorTexts \cup {s_shorter, s_longer, <<>>}, d \in MalformedTexts}
    \cup {<<"1", ":", "6", "0", ":", "0", "0">> \o <<"-">> \o t_2h, t_1h \o <<"-">> \o <<"1", ":", "6", "0", ":", "0", "0">>}

\* C9: an empty expression, one of unknown syntax and one with a malformed
\* duration all fail with a validation error and yield no constraint.
C9_InvalidRejected ==
    \A text \in InvalidRuntimeValues :
        Parsed(text) => rt_state = "error" /\ rt_constraint = <<>>

C9_Witness == rt_state = "error" /\ rt_value = <<"<">> \o <<"1", ":", "6", "0", ":", "0", "0">>

(***************************************************************************)
(* processing.py: _count_gpus and determine_job_type                       *)
(***************************************************************************)
\* re.sub(r"\([^)]*\)", "", s): every "(" up to the first ")" after it is removed
RECURSIVE RemoveParenthesised(_)
RemoveParenthesised(s) ==
    LET i == IndexOf(s, "(")
        j == IndexOf(Drop(s, i), ")")
    IN  IF i = 0 \/ j = 0 THEN s
        ELSE SubSeq(s, 1, i - 1) \o RemoveParenthesised(Drop(s, i + j))

\* the end of the longest run of characters of class starting at position i
\* (i - 1 when s[i] is not of class)
RunEnd(s, i, class) ==
    LET stops == {k \in i..Len(s) : s[k] \notin class}
    IN  IF stops = {} THEN Len(s) ELSE (CHOOSE k \in stops : \A m \in stops : k <= m) - 1

\* re.search(r"(\d+)", value): the first run of digits, None when there is none
FirstDigitRun(value) ==
    LET I == {i \in 1..Len(value) : value[i] \in Digits}
        i == CHOOSE i \in I : \A j \in I : i <= j
    IN  IF I = {} THEN None ELSE Some(SubSeq(value, i, RunEnd(value, i, Digits)))

s_gresgpu == <<"g", "r", "e", "s", "/", "g", "p", "u">>

\* a chunk of the key=value encoding: whether it is a gres/gpu token
IsTresChunk(chunk) == StartsWith(Lower(Strip(chunk)), s_gresgpu)

\* what one chunk adds to gpu_total
TresChunkCount(chunk) ==
    LET c == Strip(chunk)
        value == Strip(AfterFirst(c, "="))
    IN  IF ~IsTresChunk(chunk) THEN 0
        ELSE IF IndexOf(c, "=") = 0 THEN 0
        ELSE IF value = <<>> THEN 0
        ELSE IF PyInt(value) # None THEN PyInt(value)[1]
        ELSE IF FirstDigitRun(value) # None THEN DigitsVal(FirstDigitRun(value)[1])
        ELSE 0

RECURSIVE SumTresChunks(_)
SumTresChunks(chunks) ==
    IF chunks = <<>> THEN 0 ELSE TresChunkCount(Head(chunks)) + SumTresChunks(Tail(chunks))

\* the characters of [^,()]
NotSeparator(s) == {s[k] : k \in 1..Len(s)} \ {",", "(", ")"}

\* _GPU_PATTERN at position i: "gpu" in any case, then (?::[^,()]+)*:(\d+).  The colon
\* before the captured digits is the last colon of the run of [^,()] characters after
\* "gpu" that is followed by a digit and is either the first character of the run or
\* at least two characters into it (greedy repetition, then backtracking).
GpuColons(s, i) ==
    LET p == i + 3
        q == RunEnd(s, p, NotSeparator(s))
    IN  IF i + 3 > Len(s) \/ Lower(SubSeq(s, i, i + 2)) # <<"g", "p", "u">> \/ s[p] # ":" THEN {}
        ELSE {c \in p..q : /\ s[c] = ":"
                           /\ c + 1 <= Len(s) /\ s[c + 1] \in Digits
                           /\ c = p \/ c >= p + 2}

\* _GPU_PATTERN.findall(s) from position from on, summed
RECURSIVE SumGpuPattern(_, _)
SumGpuPattern(s, from) ==
    LET starts == {i \in from..Len(s) : GpuColons(s, i) # {}}
        i == CHOOSE i \in starts : \A j \in starts : i <= j
        c == CHOOSE c \in GpuColons(s, i) : \A d \in GpuColons(s, i) : c >= d
        e == RunEnd(s, c + 1, Digits)
    IN  IF starts = {} THEN 0
        ELSE DigitsVal(SubSeq(s, c + 1, e)) + SumGpuPattern(s, e + 1)

\* _count_gpus of an optional descriptor
count_gpus(alloc_tres) ==
    IF alloc_tres = None \/ alloc_tres[1] = <<>> THEN 0
    ELSE LET cleaned == RemoveParenthesised(alloc_tres[1])
             chunks == SplitMax(cleaned, ",", -1)
         IN  IF \E k \in 1..Len(chunks) : IsTresChunk(chunks[k])
             THEN SumTresChunks(chunks)
             ELSE SumGpuPattern(cleaned, 1)

\* determine_job_type with the GPU count looked at before the node count
determine_job_type_gpufirst(row) ==
    LET nodes == row.nodes
        gpu_count == count_gpus(row.alloc_tres)
    IN  IF gpu_count = 0 THEN Some("cpu-only")
        ELSE IF gpu_count = 1 THEN Some("1-gpu")
        ELSE IF nodes # None /\ nodes[1] > 1 THEN Some("multi-node")
        ELSE IF nodes = Some(1) \/ nodes = None THEN Some("single-node")
        ELSE None

\* determine_job_type: the job type of a row, None when it cannot be told
determine_job_type(row) ==
    LET nodes == row.nodes
        gpu_count == count_gpus(row.alloc_tres)
    IN  IF nodes # None /\ nodes[1] > 1 THEN Some("multi-node")
        ELSE IF gpu_count = 0 THEN Some("cpu-only")
        ELSE IF gpu_count = 1 THEN Some("1-gpu")
        ELSE IF nodes = Some(1) \/ nodes = None THEN Some("single-node")
        ELSE None

\* ---- the rows classified: node counts and resource descriptors ----
NodeCounts == {None, Some(-1), Some(0), Some(1), Some(2), Some(4)}

\* resource descriptors, each with the number of GPUs _count_gpus finds in it
TresTable ==
    {<<<<"g", "r", "e", "s", "/", "g", "p", "u", "=", "4">>, 4>>, <<t_gpu1, 1>>, <<<<"g", "p", "u", ":", "4">>, 4>>, <<<<"g", "r", "e", "s", "/", "g", "p", "u", ":", "t", "e", "s", "l", "a", "=", "4">>, 4>>,
     <<<<"c", "p", "u", "=", "4", ",", "m", "e", "m", "=", "8", "G", ",", "n", "o", "d", "e", "=", "1", ",", "g", "r", "e", "s", "/", "g", "p", "u", "=", "1">>, 1>>, <<<<"c", "p", "u", "=", "4", ",", "m", "e", "m", "=", "1", "6", "G">>, 0>>,
     <<<<"g", "r", "e", "s", "/", "g", "p", "u", "=", "0">>, 0>>, <<<<"g", "p", "u", ":", "1">>, 1>>, <<<<"g", "p", "u", ":", "a", "1", "0", "0", ":", "2">>, 2>>,
     <<<<"g", "r", "e", "s", "/", "g", "p", "u", ":", "a", "1", "0", "0", ":", "2">>, 0>>, <<<<"g", "r", "e", "s", "/", "g", "p", "u", "=", "2", "(", "I", "D", "X", ":", "0", "-", "1", ")">>, 2>>, <<<<"G", "R", "E", "S", "/", "G", "P", "U", "=", "2">>, 2>>,
     <<<<"g", "p", "u", ":", "2", ",", "g", "p", "u", ":", "1">>, 3>>, <<<<"g", "r", "e", "s", "/", "g", "p", "u", "=", "1", ",", "g", "r", "e", "s", "/", "g", "p", "u", ":", "t", "e", "s", "l", "a", "=", "1">>, 2>>,
     <<<<"g", "p", "u", ":", "2", "(", "S", ":", "0", ")", ",", "g", "p", "u", ":", "1">>, 3>>, <<<<"g", "r", "e", "s", "/", "g", "p", "u", "=", "-", "2">>, -2>>, <<<<"b", "i", "l", "l", "i", "n", "g", "=", "8", ",", "g", "r", "e", "s", "/", "g", "p", "u", "=", "8">>, 8>>}

Descriptors == {None} \cup {Some(d[1]) : d \in TresTable}

\* the GPU count the table gives for an optional descriptor
TableGpus(alloc_tres) ==
    IF alloc_tres = None THEN 0
    ELSE (CHOOSE d \in TresTable : d[1] = alloc_tres[1])[2]

DetermineJobType ==
    /\ jt_state = "input"
    /\ jt_state' = "done"
    /\ jt_gpu_count' = count_gpus(jt_row.alloc_tres)
    /\ jt_result' = determine_job_type(jt_row)
    /\ UNCHANGED jt_row
    /\ UNCHANGED <<parserVars, partsVars, rtVars, laterVars>>

InitJobType ==
    /\ jt_row \in [nodes : NodeCounts, alloc_tres : Descriptors]
    /\ jt_state = "input"
    /\ jt_gpu_count = 0
    /\ jt_result = None
    /\ IdleParser /\ IdleParts /\ IdleRuntime /\ IdleLater

NextJobType == DetermineJobType

SpecJobType == InitJobType /\ [][NextJobType]_vars

(***************************************************************************)
(* Properties of the classifier                                            *)
(***************************************************************************)
Classified(nodes, alloc_tres) ==
    jt_state = "done" /\ jt_row = [nodes |-> nodes, alloc_tres |-> alloc_tres]

\* C10: multi-node when the node count is known and above 1, whatever the GPU
\* count; otherwise cpu-only for 0 GPUs; otherwise 1-gpu for exactly 1 GPU;
\* otherwise single-node when the node count is 1 or unknown; otherwise no type.
\* (gres/gpu=4, 1 node) is single-node, (gpu:4, 2 nodes) multi-node, (no
\* descriptor, 1 node) cpu-only and (gres/gpu=1, 1 node) 1-gpu.
C10_DecisionOrder ==
    /\ jt_state = "done" =>
          LET nodes == jt_row.nodes
              gpus == TableGpus(jt_row.alloc_tres)
          IN  jt_result =
                  IF nodes # None /\ nodes[1] > 1 THEN Some("multi-node")
                  ELSE IF gpus = 0 THEN Some("cpu-only")
                  ELSE IF gpus = 1 THEN Some("1-gpu")
                  ELSE IF nodes = None \/ nodes[1] = 1 THEN Some("single-node")
                  ELSE None
    /\ Classified(Some(1), Some(<<"g", "r", "e", "s", "/", "g", "p", "u", "=", "4">>)) => jt_result = Some("single-node")
    /\ Classified(Some(2), Some(<<"g", "p", "u", ":", "4">>)) => jt_result = Some("multi-node")
    /\ Classified(Some(1), None) => jt_result = Some("cpu-only")
    /\ Classified(Some(1), Some(t_gpu1)) => jt_result = Some("1-gpu")

C10_Witness ==
    /\ Classified(Some(2), Some(t_gpu1))
    /\ jt_result = Some("multi-node")

\* a chunk of the descriptor in the key=value encoding: "gres/gpu...=..."
IsKeyValueGpuToken(chunk) == IsTresChunk(chunk) /\ IndexOf(Strip(chunk), "=") # 0

\* C11: the GPU count of a descriptor, parenthesised annotations removed, is the sum
\* of the counts of its key=value GPU tokens when at least one token is in the
\* key=value encoding, and otherwise the sum of the counts of its colon-style tokens
\* (gpu[:subtype]:count); a missing descriptor or one without GPU token counts 0.
C11_PreferKeyValue ==
    jt_state = "done" =>
        jt_gpu_count =
            IF jt_row.alloc_tres = None THEN 0
            ELSE LET cleaned == RemoveParenthesised(jt_row.alloc_tres[1])
                     chunks == SplitMax(cleaned, ",", -1)
                 IN  IF \E k \in 1..Len(chunks) : IsKeyValueGpuToken(chunks[k])
                     THEN SumTresChunks(chunks)
                     ELSE SumGpuPattern(cleaned, 1)

(***************************************************************************)
(* processing.py: _matches and filter_rows                                 *)
(***************************************************************************)
\* the characters of the names and patterns, in code-point order
AsciiOrder ==
    <<"!", "*", "-", ".", "0", "1", "2", "3", "4", "5", "6", "7", "8", "9", "?",
      "A", "B", "C", "G", "P", "U", "[", "]", "a", "b", "c", "d", "e", "g", "i",
      "l", "o", "p", "r", "u">>
Ord(c) ==
    LET I == {i \in 1..Len(AsciiOrder) : AsciiOrder[i] = c}
    IN  IF I = {} THEN 0 ELSE CHOOSE i \in I : TRUE

\* fnmatch.translate: for a pattern starting with "[", the index of the "]" closing
\* the set (a "]" right after "[" or "[!" belongs to the set), 0 when there is none
ClassEnd(pat) ==
    LET j0 == IF Len(pat) >= 2 /\ pat[2] = "!" THEN 3 ELSE 2
        j1 == IF Len(pat) >= j0 /\ pat[j0] = "]" THEN j0 + 1 ELSE j0
        closers == {j \in j1..Len(pat) : pat[j] = "]"}
    IN  IF closers = {} THEN 0 ELSE CHOOSE j \in closers : \A k \in closers : j <= k

\* c is one of the characters or in one of the ranges x-y of the set body
RECURSIVE InSetBody(_, _)
InSetBody(body, c) ==
    IF body = <<>> THEN FALSE
    ELSE IF Len(body) >= 3 /\ body[2] = "-"
    THEN (Ord(body[1]) <= Ord(c) /\ Ord(c) <= Ord(body[3])) \/ InSetBody(Drop(body, 3), c)
    ELSE body[1] = c \/ InSetBody(Tail(body), c)

\* [stuff] and [!stuff]
InClass(stuff, c) ==
    IF stuff[1] = "!" THEN ~InSetBody(Tail(stuff), c) ELSE InSetBody(stuff, c)

\* the match made after lower-casing name and pattern (os.path.normcase of Windows)
RECURSIVE fnmatch_nocase(_, _)
fnmatch_nocase(name, pat) ==
    IF pat = <<>> THEN name = <<>>
    ELSE IF pat[1] = "*"
    THEN \E k \in 0..Len(name) : fnmatch_nocase(Drop(name, k), Tail(pat))
    ELSE IF pat[1] = "?"
    THEN name # <<>> /\ fnmatch_nocase(Tail(name), Tail(pat))
    ELSE IF pat[1] = "[" /\ ClassEnd(pat) # 0
    THEN /\ name # <<>>
         /\ InClass(Lower(SubSeq(pat, 2, ClassEnd(pat) - 1)), LowerChar(name[1]))
         /\ fnmatch_nocase(Tail(name), Drop(pat, ClassEnd(pat)))
    ELSE name # <<>> /\ LowerChar(name[1]) = LowerChar(pat[1]) /\ fnmatch_nocase(Tail(name), Tail(pat))

\* fnmatch.fnmatch(name, pat) where os.path.normcase is the identity (POSIX): the whole
\* name matches the pattern, "*" any run of characters, "?" any one character, "[...]"
\* one character of the set, any other character itself
RECURSIVE fnmatch(_, _)
fnmatch(name, pat) ==
    IF pat = <<>> THEN name = <<>>
    ELSE IF pat[1] = "*"
    THEN \E k \in 0..Len(name) : fnmatch(Drop(name, k), Tail(pat))
    ELSE IF pat[1] = "?"
    THEN name # <<>> /\ fnmatch(Tail(name), Tail(pat))
    ELSE IF pat[1] = "[" /\ ClassEnd(pat) # 0
    THEN /\ name # <<>>
         /\ InClass(SubSeq(pat, 2, ClassEnd(pat) - 1), name[1])
         /\ fnmatch(Tail(name), Drop(pat, ClassEnd(pat)))
    ELSE name # <<>> /\ name[1] = pat[1] /\ fnmatch(Tail(name), Tail(pat))

\* _matches(value, patterns)
matches_any(value, patterns) == \E k \in 1..Len(patterns) : fnmatch(value, patterns[k])

\* the row's values being falsy in "if user_filters and ...": None or an empty list
Falsy(option) == option = None \/ option[1] = <<>>

\* the JobRecord built from a row that passed every filter
JobRecord(row) ==
    [job_id |-> row.job_id,
     user |-> row.user,
     submit_time |-> row.submit_time,
     start_time |-> row.start_time,
     state |-> row.state,
     partition |-> row.partition,
     nodes |-> row.nodes,
     alloc_tres |-> row.alloc_tres,
     elapsed_seconds |-> row.elapsed_seconds,
     wait_seconds |-> row.start_time - row.submit_time,
     job_type |-> determine_job_type(row)]

\* every constraint of the list accepts the value
RECURSIVE all_match(_, _)
all_match(constraints, value) ==
    constraints = <<>> \/ (matches(Head(constraints), value) /\ all_match(Tail(constraints), value))

\* the step check done even when steps are to be included
skip_step_always(row, opts) == IndexOf(row.job_id, ".") # 0

\* if not include_steps and "." in row.job_id: continue
skip_step(row, opts) == ~opts.include_steps /\ IndexOf(row.job_id, ".") # 0

\* if user_filters and not _matches(row.user, user_filters): continue
skip_user(row, opts) ==
    ~Falsy(opts.user_filters) /\ ~matches_any(row.user, opts.user_filters[1])

\* if partition_filters and not _matches(row.partition, partition_filters): continue
skip_partition(row, opts) ==
    ~Falsy(opts.partition_filters) /\ ~matches_any(row.partition, opts.partition_filters[1])

\* if job_type and row_job_type != job_type: continue
skip_job_type(row, opts) ==
    opts.job_type # None /\ determine_job_type(row) # opts.job_type

\* the wait cap compared inclusively
skip_wait_inclusive(row, opts) ==
    opts.max_wait_hours # None
        /\ row.start_time - row.submit_time >= opts.max_wait_hours[1] * 3600

\* wait_cap = max_wait_hours * 3600; if wait_cap is not None and wait_seconds > wait_cap: continue
skip_wait(row, opts) ==
    opts.max_wait_hours # None
        /\ row.start_time - row.submit_time > opts.max_wait_hours[1] * 3600

\* the runtime filters letting rows without elapsed time through
skip_runtime_unknown_kept(row, opts) ==
    /\ ~Falsy(opts.runtime_filters)
    /\ row.elapsed_seconds # None
    /\ ~all_match(opts.runtime_filters[1], row.elapsed_seconds[1])

\* if runtime_filters: a row without elapsed time, or one a constraint rejects: continue
skip_runtime(row, opts) ==
    /\ ~Falsy(opts.runtime_filters)
    /\ \/ row.elapsed_seconds = None
       \/ ~all_match(opts.runtime_filters[1], row.elapsed_seconds[1])

\* one iteration of the loop of filter_rows: no "continue" is taken for the row
passes(row, opts) ==
    /\ ~skip_step(row, opts)
    /\ ~skip_user(row, opts)
    /\ ~skip_partition(row, opts)
    /\ ~skip_job_type(row, opts)
    /\ ~skip_wait(row, opts)
    /\ ~skip_runtime(row, opts)

\* ---- the rows and keyword arguments handed to filter_rows ----
MaxRows == 2

t_d3 == <<"2", "0", "2", "4", "/", "0", "5", "/", "0", "3">>
u_alice == <<"a", "l", "i", "c", "e">>
u_bob == <<"b", "o", "b">>
u_carol == <<"c", "a", "r", "o", "l">>
u_Alice == <<"A", "l", "i", "c", "e">>
p_gpu_a == <<"g", "p", "u", "-", "a">>
p_gpu_b == <<"g", "p", "u", "-", "b">>
p_cpu == <<"c", "p", "u">>
p_GPU_a == <<"G", "P", "U", "-", "a">>

\* the row parse_sacct_output makes of one record
ParsedRow(job, cmd, user, submit, start, partition, nodes, tres, elapsed) ==
    process_parts(<<job, <<>>, <<"j">>, cmd, user, submit, start, <<"C", "D">>, partition,
                    nodes, tres, elapsed>>)[1]

row_123 == ParsedRow(<<"1", "2", "3">>, <<"s", "b", "a", "t", "c", "h", " ", "j">>, u_alice, t_d1, t_d2, p_gpu_a, <<"1">>, t_gpu1, t_halfhour)
row_123_batch == ParsedRow(<<"1", "2", "3", ".", "b", "a", "t", "c", "h">>, <<>>, u_alice, t_d1, t_d2, p_gpu_a, <<"1">>, t_gpu1, t_halfhour)
row_456 == ParsedRow(<<"4", "5", "6">>, <<"s", "a", "l", "l", "o", "c">>, u_bob, t_d1, t_d3, p_gpu_b, <<"1">>, <<"g", "r", "e", "s", "/", "g", "p", "u", "=", "4">>, t_2h)
row_789 == ParsedRow(<<"7", "8", "9">>, <<"s", "r", "u", "n">>, u_carol, t_d2, t_d1, p_cpu, <<"1">>, <<"(", "n", "u", "l", "l", ")">>, <<"U", "n", "k", "n", "o", "w", "n">>)
row_9 == ParsedRow(<<"9">>, <<"s", "b", "a", "t", "c", "h">>, u_Alice, t_d1, t_d1, p_GPU_a, <<"N", "/", "A">>, <<"g", "p", "u", ":", "1">>, t_1h)
row_10_0 == ParsedRow(<<"1", "0", ".", "0">>, <<>>, u_bob, t_d2, t_d3, p_gpu_b, <<"2">>, <<"g", "p", "u", ":", "4">>, <<>>)

RowPool == {row_123, row_123_batch, row_456, row_789, row_9, row_10_0}

RowSequences == UNION {[1..n -> RowPool] : n \in 0..MaxRows}

\* RuntimeConstraint(min_seconds=1800, min_inclusive=True), RuntimeConstraint(max_seconds=7200, max_inclusive=False)
c_from_1800 == RuntimeConstraint(Some(1800), None, TRUE, TRUE)
c_below_7200 == RuntimeConstraint(None, Some(7200), TRUE, FALSE)

\* filter_rows(rows) with every keyword argument left at its default
DefaultOptions ==
    [include_steps |-> FALSE, user_filters |-> None, partition_filters |-> None,
     job_type |-> None, max_wait_hours |-> None, runtime_filters |-> None,
     slurm_job_type |-> None]

OptionValues ==
    [include_steps : BOOLEAN,
     user_filters : {None, Some(<<>>), Some(<<u_alice, u_bob>>), Some(<<<<"?", "o", "b">>, <<"[", "a", "-", "c", "]", "a", "r", "o", "l">>>>)},
     partition_filters : {None, Some(<<<<"g", "p", "u", "*">>>>), Some(<<<<"g", "p", "u", "-", "?">>, <<"[", "!", "g", "]", "p", "u">>>>)},
     job_type : {None, Some("1-gpu"), Some("cpu-only")},
     max_wait_hours : {None, Some(24), Some(48)},
     runtime_filters : {None, Some(<<>>), Some(<<c_from_1800>>), Some(<<c_from_1800, c_below_7200>>)},
     slurm_job_type : {None, Some("batch"), Some("interactive")}]

\* the calls that set at most two keyword arguments to something else than the default
OptionSets ==
    {o \in OptionValues :
        Cardinality({k \in DOMAIN DefaultOptions : o[k] # DefaultOptions[k]}) <= 2}

\* ---- the actions ----
\* the call: filter_rows has no keyword argument slurm_job_type, passing it is a TypeError
CallFilterRows ==
    /\ f_state = "call"
    /\ f_state' = IF f_opts.slurm_job_type # None THEN "type_error" ELSE "loop"
    /\ f_pos' = 0
    /\ filtered' = <<>>
    /\ UNCHANGED <<f_rows, f_opts>>
    /\ UNCHANGED <<parserVars, partsVars, rtVars, jtVars, binVars, histVars, tickVars, mainVars>>

\* the loop putting each record in front of the list
FilterRow_prepend ==
    /\ f_state = "loop"
    /\ f_pos < Len(f_rows)
    /\ LET row == f_rows[f_pos + 1]
       IN  filtered' = IF passes(row, f_opts) THEN <<JobRecord(row)>> \o filtered ELSE filtered
    /\ f_pos' = f_pos + 1
    /\ UNCHANGED <<f_rows, f_opts, f_state>>
    /\ UNCHANGED <<parserVars, partsVars, rtVars, jtVars, binVars, histVars, tickVars, mainVars>>

\* one iteration of "for row in rows"
FilterRow ==
    /\ f_state = "loop"
    /\ f_pos < Len(f_rows)
    /\ LET row == f_rows[f_pos + 1]
       IN  filtered' = IF passes(row, f_opts) THEN Append(filtered, JobRecord(row)) ELSE filtered
    /\ f_pos' = f_pos + 1
    /\ UNCHANGED <<f_rows, f_opts, f_state>>
    /\ UNCHANGED <<parserVars, partsVars, rtVars, jtVars, binVars, histVars, tickVars, mainVars>>

\* return filtered
ReturnFiltered ==
    /\ f_state = "loop"
    /\ f_pos = Len(f_rows)
    /\ f_state' = "returned"
    /\ UNCHANGED <<f_rows, f_opts, f_pos, filtered>>
    /\ UNCHANGED <<parserVars, partsVars, rtVars, jtVars, binVars, histVars, tickVars, mainVars>>

InitFilter ==
    /\ f_rows \in RowSequences
    /\ f_opts \in OptionSets
    /\ f_state = "call"
    /\ f_pos = 0
    /\ filtered = <<>>
    /\ IdleParser /\ IdleParts /\ IdleRuntime /\ IdleJobType /\ IdleBins /\ IdleHistogram
    /\ IdleTicks /\ IdleMain

NextFilter == CallFilterRows \/ FilterRow \/ ReturnFiltered

SpecFilter == InitFilter /\ [][NextFilter]_vars

(***************************************************************************)
(* Properties of filter_rows                                               *)
(***************************************************************************)
\* the loop goes through one row
Iterates == f_state = "loop" /\ f_pos' = f_pos + 1
\* the row the loop is about to go through
StepRow == f_rows[f_pos + 1]
\* the iteration appends a record
Kept == Len(filtered') = Len(filtered) + 1
\* the call sets no keyword argument outside keys
OnlySet(keys) == \A k \in DOMAIN DefaultOptions \ keys : f_opts[k] = DefaultOptions[k]
IsStep(row) == \E i \in 1..Len(row.job_id) : row.job_id[i] = "."
JobIds == [i \in 1..Len(filtered) |-> filtered[i].job_id]

\* C12: every record emitted by filter_rows has wait_seconds >= 0, wait_seconds being
\* start time minus submit time: no row whose start precedes its submit is emitted.
C12_WaitNonNegative ==
    \A i \in 1..Len(filtered) :
        /\ filtered[i].wait_seconds = filtered[i].start_time - filtered[i].submit_time
        /\ filtered[i].wait_seconds >= 0

\* record is the record of row: every field they share is equal
ComesFrom(record, row) == \A k \in DOMAIN row \cap DOMAIN record : record[k] = row[k]

\* C13: the output is a subsequence of the input: rows are gone through in order, one
\* at a time, and each either leaves the list alone or appends its own record.
C13_Step ==
    /\ f_pos' = f_pos \/ f_pos' = f_pos + 1
    /\ f_pos' = f_pos => filtered' = filtered
    /\ f_pos' = f_pos + 1 =>
          \/ filtered' = filtered
          \/ /\ Len(filtered') = Len(filtered) + 1
             /\ SubSeq(filtered', 1, Len(filtered)) = filtered
             /\ ComesFrom(filtered'[Len(filtered')], StepRow)

C13_Subsequence == [][C13_Step]_vars

C13_Witness ==
    /\ f_state = "returned"
    /\ f_rows = <<row_456, row_123>>
    /\ JobIds = <<row_456.job_id, row_123.job_id>>

\* C14: with include_steps false no emitted record has a "." in its job identifier;
\* with include_steps true the "." alone never excludes a row: with no other filter
\* every row is emitted, and a step is emitted whenever the same row under the job's
\* own identifier is.
C14_Step ==
    Iterates =>
        /\ (~f_opts.include_steps /\ IsStep(StepRow)) => ~Kept
        /\ (f_opts.include_steps /\ OnlySet({"include_steps"})) => Kept

C14_Steps ==
    /\ [][C14_Step]_vars
    /\ [](~f_opts.include_steps => \A i \in 1..Len(filtered) : ~IsStep(filtered[i]))
    /\ []((f_state = "returned" /\ f_opts.include_steps /\ f_rows = <<row_123, row_123_batch>>)
            => JobIds \in {<<>>, <<row_123.job_id, row_123_batch.job_id>>})

C14_Witness ==
    /\ f_state = "returned"
    /\ f_opts.include_steps /\ f_opts.user_filters = Some(<<u_alice, u_bob>>)
    /\ f_rows = <<row_123, row_123_batch>>
    /\ JobIds = <<row_123.job_id, row_123_batch.job_id>>

\* the names each pattern of the calls matches, among the users and partitions of the rows
GlobTable ==
    {<<u_alice, {u_alice}>>, <<u_bob, {u_bob}>>,
     <<<<"?", "o", "b">>, {u_bob}>>, <<<<"[", "a", "-", "c", "]", "a", "r", "o", "l">>, {u_carol}>>,
     <<<<"g", "p", "u", "*">>, {p_gpu_a, p_gpu_b}>>, <<<<"g", "p", "u", "-", "?">>, {p_gpu_a, p_gpu_b}>>,
     <<<<"[", "!", "g", "]", "p", "u">>, {p_cpu}>>}

\* name matches one pattern of the list, by the table
GlobAllows(patterns, name) ==
    \E k \in 1..Len(patterns) : \E g \in GlobTable : g[1] = patterns[k] /\ name \in g[2]

\* the list is absent or empty
NoList(option) == option = None \/ option = Some(<<>>)

\* C15: with a user (partition) pattern list a row is retained only if its user
\* (partition) matches a pattern of the list as a glob ("*", "?", "[...]", other
\* characters literally and case-sensitively: "gpu*" matches gpu-a and gpu-b, not
\* cpu); an absent or empty list restricts nothing.
C15_Step ==
    Iterates =>
        /\ (Kept /\ ~NoList(f_opts.user_filters)) => GlobAllows(f_opts.user_filters[1], StepRow.user)
        /\ (Kept /\ ~NoList(f_opts.partition_filters)) =>
              GlobAllows(f_opts.partition_filters[1], StepRow.partition)
        /\ (OnlySet({"user_filters", "partition_filters"}) /\ ~IsStep(StepRow)) =>
              (Kept <=> /\ NoList(f_opts.user_filters)
                           \/ GlobAllows(f_opts.user_filters[1], StepRow.user)
                        /\ NoList(f_opts.partition_filters)
                           \/ GlobAllows(f_opts.partition_filters[1], StepRow.partition))

C15_Globs == [][C15_Step]_vars

C15_Witness ==
    /\ f_state = "returned"
    /\ f_opts.partition_filters = Some(<<<<"g", "p", "u", "*">>>>) /\ f_opts.user_filters = Some(<<u_alice, u_bob>>)
    /\ f_rows = <<row_456, row_9>>
    /\ JobIds = <<row_456.job_id>>

\* the wait of a row in seconds
WaitOf(row) == row.start_time - row.submit_time

\* C16: with a cutoff of h hours a row is dropped because of its wait exactly when the
\* wait exceeds h*3600 seconds: a wait equal to the cutoff is retained, and without
\* cutoff no row is dropped because of its wait.
C16_Step ==
    Iterates =>
        /\ (f_opts.max_wait_hours # None /\ WaitOf(StepRow) > f_opts.max_wait_hours[1] * 3600) => ~Kept
        /\ (OnlySet({"max_wait_hours"}) /\ ~IsStep(StepRow)) =>
              (Kept <=> \/ f_opts.max_wait_hours = None
                        \/ WaitOf(StepRow) <= f_opts.max_wait_hours[1] * 3600)

C16_WaitCutoff == [][C16_Step]_vars

C16_Witness ==
    /\ f_state = "returned"
    /\ f_opts.max_wait_hours = Some(24) /\ OnlySet({"max_wait_hours"})
    /\ f_rows = <<row_123, row_456>>
    /\ WaitOf(row_123) = 24 * 3600 /\ WaitOf(row_456) > 24 * 3600
    /\ JobIds = <<row_123.job_id>>

\* value lies within the bounds of constraint c
Within(c, value) ==
    /\ c.min_seconds # None =>
          value > c.min_seconds[1] \/ (value = c.min_seconds[1] /\ c.min_inclusive)
    /\ c.max_seconds # None =>
          value < c.max_seconds[1] \/ (value = c.max_seconds[1] /\ c.max_inclusive)

\* the row's elapsed time is known and within every constraint of the list
RuntimeAllows(constraints, row) ==
    /\ row.elapsed_seconds # None
    /\ \A k \in 1..Len(constraints) : Within(constraints[k], row.elapsed_seconds[1])

\* C17: with at least one runtime constraint a row is retained only if its elapsed
\* time is known and satisfies every constraint; a row without elapsed time is dropped
\* whenever the list is non-empty, and is not dropped for it when the list is empty
\* or absent.
C17_Step ==
    Iterates =>
        /\ (Kept /\ ~NoList(f_opts.runtime_filters)) => RuntimeAllows(f_opts.runtime_filters[1], StepRow)
        /\ (OnlySet({"runtime_filters"}) /\ ~IsStep(StepRow)) =>
              (Kept <=> \/ NoList(f_opts.runtime_filters)
                        \/ RuntimeAllows(f_opts.runtime_filters[1], StepRow))

C17_RuntimeFilters == [][C17_Step]_vars

C17_Witness ==
    /\ f_state = "returned"
    /\ f_opts.runtime_filters = Some(<<c_from_1800, c_below_7200>>)
    /\ f_rows = <<row_789, row_123>>
    /\ row_789.elapsed_seconds = None /\ ~IsStep(row_789)
    /\ JobIds = <<row_123.job_id>>

\* the submission mode of a row, from the text of its submission command
SubmissionMode(row) ==
    IF row.submit_line = None THEN None
    ELSE IF StartsWith(row.submit_line[1], <<"s", "b", "a", "t", "c", "h">>) THEN Some("batch")
    ELSE IF StartsWith(row.submit_line[1], <<"s", "a", "l", "l", "o", "c">>) THEN Some("interactive")
    ELSE None

\* C18: filter_rows accepts a submission-mode filter and then retains exactly the rows
\* whose submission mode (batch for an sbatch command, interactive for an salloc
\* command) equals it; every emitted record carries its submission mode.
C18_SubmissionMode ==
    /\ f_opts.slurm_job_type # None => f_state # "type_error"
    /\ \A i \in 1..Len(filtered) :
          /\ "slurm_job_type" \in DOMAIN filtered[i]
          /\ \E k \in 1..f_pos :
                /\ ComesFrom(filtered[i], f_rows[k])
                /\ filtered[i].slurm_job_type = SubmissionMode(f_rows[k])
          /\ f_opts.slurm_job_type # None => filtered[i].slurm_job_type = f_opts.slurm_job_type
    /\ (f_state = "returned" /\ OnlySet({"slurm_job_type"}) /\ f_opts.slurm_job_type # None) =>
          Len(filtered) = Cardinality({k \in 1..Len(f_rows) :
                                         /\ ~IsStep(f_rows[k])
                                         /\ SubmissionMode(f_rows[k]) = f_opts.slurm_job_type})

(***************************************************************************)
(* time_utils.py: freedman_diaconis_bins                                   *)
(***************************************************************************)
\* data.sort()
Sorted(values) == SortSeq(values, LAMBDA a, b : a < b)

\* the percentile of sorted data at fraction num/den, times den: data[lower] when
\* (n-1)*num/den is whole, else lower_value + (upper_value - lower_value)*(idx - lower)
PercentileTimes(data, num, den) ==
    LET idx == (Len(data) - 1) * num
        lower == idx \div den
        part == idx % den
    IN  IF part = 0 THEN den * data[lower + 1]
        ELSE den * data[lower + 1] + (data[lower + 2] - data[lower + 1]) * part

\* int(round(n ** 0.5)): the whole number nearest to the square root of n
RoundSqrt(n) == CHOOSE r \in 0..n : (2 * r - 1) * (2 * r - 1) < 4 * n /\ 4 * n < (2 * r + 1) * (2 * r + 1)

\* math.ceil(data_range / width) for width = 2*iqr / n**(1/3), from bin count b on:
\* the least b with b * iqr >= data_range * n**(1/3) / 2, iqr4 being 4 * iqr
RECURSIVE CeilRangeOverWidth(_, _, _, _)
CeilRangeOverWidth(data_range, iqr4, n, b) ==
    IF (b * iqr4) * (b * iqr4) * (b * iqr4) >= 8 * data_range * data_range * data_range * n
    THEN b
    ELSE CeilRangeOverWidth(data_range, iqr4, n, b + 1)

Max(a, b) == IF a >= b THEN a ELSE b

\* freedman_diaconis_bins: None for the ValueError of an empty input
freedman_diaconis_bins(values) ==
    LET n == Len(values)
        data == Sorted(values)
        iqr4 == PercentileTimes(data, 3, 4) - PercentileTimes(data, 1, 4)
        data_range == data[n] - data[1]
    IN  IF n = 0 THEN None
        ELSE IF n = 1 THEN Some(1)
        ELSE IF iqr4 = 0 THEN Some(Max(1, RoundSqrt(n)))
        ELSE IF data_range = 0 THEN Some(1)
        ELSE Some(Max(1, CeilRangeOverWidth(data_range, iqr4, n, 0)))

\* ---- the values handed to freedman_diaconis_bins ----
MaxValues == 3
BinValues == {0, 1, 2, 5, 9}
BinInputs == UNION {[1..n -> BinValues] : n \in 0..MaxValues}

FreedmanDiaconisBins ==
    /\ fd_state = "input"
    /\ LET bins == freedman_diaconis_bins(fd_values)
       IN  IF bins = None
           THEN fd_state' = "error" /\ UNCHANGED fd_bins
           ELSE fd_state' = "done" /\ fd_bins' = bins[1]
    /\ UNCHANGED fd_values
    /\ UNCHANGED <<parserVars, partsVars, rtVars, jtVars, filterVars, histVars, tickVars, mainVars>>

InitBins ==
    /\ fd_values \in BinInputs
    /\ fd_state = "input"
    /\ fd_bins = 0
    /\ IdleParser /\ IdleParts /\ IdleRuntime /\ IdleJobType /\ IdleFilter /\ IdleHistogram
    /\ IdleTicks /\ IdleMain

NextBins == FreedmanDiaconisBins

SpecBins == InitBins /\ [][NextBins]_vars

\* C19: freedman_diaconis_bins returns a whole number >= 1 for every non-empty input,
\* and exactly 1 whenever all the values are equal, however many there are.
C19_AtLeastOneBin ==
    (fd_state # "input" /\ fd_values # <<>>) =>
        /\ fd_state = "done"
        /\ fd_bins \in Nat /\ fd_bins >= 1
        /\ (\A i \in 1..Len(fd_values) : fd_values[i] = fd_values[1]) => fd_bins = 1

(***************************************************************************)
(* histogram.py: create_histogram                                          *)
(***************************************************************************)
\* adjusted values are kept as whole multiples of 1/Scale, which holds 1e-3 and every
\* half of a whole number exactly
Scale == 2000

\* min((value for value in values if value > 0), default=None), then 1e-3 for None
min_positive(values) ==
    LET positive == {values[i] : i \in {k \in 1..Len(values) : values[k] > 0}}
    IN  IF positive = {} THEN Scale \div 1000
        ELSE Scale * (CHOOSE v \in positive : \A w \in positive : v <= w)

\* the non-positive values replaced by min_positive itself
adjusted_values_unhalved(values) ==
    [i \in 1..Len(values) |->
        IF values[i] > 0 THEN Scale * values[i] ELSE min_positive(values)]

\* adjusted_values = [value if value > 0 else min_positive / 2 for value in values]
adjusted_values(values) ==
    [i \in 1..Len(values) |->
        IF values[i] > 0 THEN Scale * values[i] ELSE min_positive(values) \div 2]

\* ---- the waits and the bins argument handed to create_histogram ----
MaxRecords == 3
WaitValues == {-60, 0, 5, 10}
WaitInputs == UNION {[1..n -> WaitValues] : n \in 0..MaxRecords}
BinsArguments == {None, Some(2)}

\* the call up to "bins = freedman_diaconis_bins(values)": no record is a ValueError
ComputeBins ==
    /\ h_state = "call"
    /\ IF h_values = <<>>
       THEN h_state' = "error" /\ UNCHANGED h_bins
       ELSE /\ h_state' = "binned"
            /\ h_bins' = IF h_bins = None THEN freedman_diaconis_bins(h_values) ELSE h_bins
    /\ UNCHANGED <<h_values, h_adjusted, h_cutoff, h_typical, h_tail, h_panels>>
    /\ UNCHANGED <<parserVars, partsVars, rtVars, jtVars, filterVars, binVars, tickVars, mainVars>>

\* min_positive and adjusted_values
AdjustValues ==
    /\ h_state = "binned"
    /\ h_state' = "adjusted"
    /\ h_adjusted' = adjusted_values(h_values)
    /\ UNCHANGED <<h_values, h_bins, h_cutoff, h_typical, h_tail, h_panels>>
    /\ UNCHANGED <<parserVars, partsVars, rtVars, jtVars, filterVars, binVars, tickVars, mainVars>>

\* _percentile(sorted_values, num/den), times den: position = (len - 1) * fraction;
\* sorted_values[position] when position is whole, else
\* lower_value + (upper_value - lower_value) * (position - lower)
percentile(sorted_values, num, den) ==
    LET position == (Len(sorted_values) - 1) * num
        lower == position \div den
        upper == IF position % den = 0 THEN lower ELSE lower + 1
        lower_value == sorted_values[lower + 1]
        upper_value == sorted_values[upper + 1]
    IN  IF lower = upper THEN den * sorted_values[lower + 1]
        ELSE den * lower_value + (upper_value - lower_value) * (position - den * lower)

\* the typical values without those equal to the cutoff
typical_values_strict(adjusted, cutoff20) ==
    SelectSeq(adjusted, LAMBDA value : 20 * value < cutoff20)

\* [value for value in adjusted_values if value <= typical_cutoff]
typical_values(adjusted, cutoff20) ==
    SelectSeq(adjusted, LAMBDA value : 20 * value <= cutoff20)

\* the tail values with those equal to the cutoff
tail_values_inclusive(adjusted, cutoff20) ==
    SelectSeq(adjusted, LAMBDA value : 20 * value >= cutoff20)

\* [value for value in adjusted_values if value > typical_cutoff]
tail_values(adjusted, cutoff20) ==
    SelectSeq(adjusted, LAMBDA value : 20 * value > cutoff20)

MinOf(values) ==
    CHOOSE v \in {values[i] : i \in 1..Len(values)} : \A i \in 1..Len(values) : v <= values[i]
MaxOf(values) ==
    CHOOSE v \in {values[i] : i \in 1..Len(values)} : \A i \in 1..Len(values) : v >= values[i]

\* _logspace_bins: None for the ValueError of bin_count < 1, else the number of
\* edges with five times the first and the last edge (start * 0.8 and end * 1.2 for
\* a single positive value; start and end, up to the rounding of the logarithm,
\* for bin_count + 1 edges)
logspace_bins(data, bin_count) ==
    LET found == SelectSeq(data, LAMBDA value : value > 0)
        positive == IF found = <<>> THEN <<Scale \div 1000>> ELSE found
        start == MinOf(positive)
        end == MaxOf(positive)
    IN  IF bin_count < 1 THEN None
        ELSE IF start = end
        THEN Some([first5 |-> 4 * start, last5 |-> 6 * end, edges |-> 2])
        ELSE Some([first5 |-> 5 * start, last5 |-> 5 * end, edges |-> bin_count + 1])

\* bins = max(1, min(80, bins)); sorted_values, typical_cutoff, typical_values,
\* tail_values
SplitPanels ==
    /\ h_state = "adjusted"
    /\ h_state' = "split"
    /\ h_bins' = Some(Max(1, IF h_bins[1] <= 80 THEN h_bins[1] ELSE 80))
    /\ LET sorted_values == Sorted(h_adjusted)
           typical_cutoff == percentile(sorted_values, 19, 20)
       IN  /\ h_cutoff' = typical_cutoff
           /\ h_typical' = typical_values(h_adjusted, typical_cutoff)
           /\ h_tail' = tail_values(h_adjusted, typical_cutoff)
    /\ UNCHANGED <<h_values, h_adjusted, h_panels>>
    /\ UNCHANGED <<parserVars, partsVars, rtVars, jtVars, filterVars, binVars, tickVars, mainVars>>

\* the two calls of _logspace_bins and of hist: the typical panel bins
\* "typical_values or adjusted_values", the tail panel only a non-empty tail
BinPanels ==
    /\ h_state = "split"
    /\ h_state' = "panels"
    /\ LET typical_data == IF h_typical # <<>> THEN h_typical ELSE h_adjusted
       IN  h_panels' =
              [typical_data |-> typical_data,
               typical_bins |-> logspace_bins(typical_data, h_bins[1]),
               tail_bins |-> IF h_tail # <<>>
                             THEN logspace_bins(h_tail, Max(1, h_bins[1] \div 2))
                             ELSE None]
    /\ UNCHANGED <<h_values, h_bins, h_adjusted, h_cutoff, h_typical, h_tail>>
    /\ UNCHANGED <<parserVars, partsVars, rtVars, jtVars, filterVars, binVars, tickVars, mainVars>>

InitHistogram ==
    /\ h_values \in WaitInputs
    /\ h_bins \in BinsArguments
    /\ h_state = "call"
    /\ h_adjusted = <<>>
    /\ h_cutoff = 0 /\ h_typical = <<>> /\ h_tail = <<>> /\ h_panels = <<>>
    /\ IdleParser /\ IdleParts /\ IdleRuntime /\ IdleJobType /\ IdleFilter /\ IdleBins
    /\ IdleTicks /\ IdleMain

NextHistogram == ComputeBins \/ AdjustValues \/ SplitPanels \/ BinPanels

SpecHistogram == InitHistogram /\ [][NextHistogram]_vars

(***************************************************************************)
(* Properties of the substitution of non-positive values                   *)
(***************************************************************************)
Positives == {i \in 1..Len(h_values) : h_values[i] > 0}
NonPositives == {i \in 1..Len(h_values) : h_values[i] <= 0}

\* what holds of the substituted values whatever is substituted when no value is
\* positive: positive values stay, a non-positive value becomes half of the least
\* positive value, and every substituted value is positive and below every positive one
SubstitutionRules ==
    /\ Len(h_adjusted) = Len(h_values)
    /\ \A i \in Positives : h_adjusted[i] = Scale * h_values[i]
    /\ \A i \in NonPositives :
          /\ \A j \in Positives : 2 * h_adjusted[i] <= Scale * h_values[j]
          /\ Positives # {} => \E j \in Positives : 2 * h_adjusted[i] = Scale * h_values[j]
          /\ h_adjusted[i] > 0
          /\ \A j \in Positives : h_adjusted[i] < h_adjusted[j]

\* C20: every non-positive value is replaced by half of the smallest strictly positive
\* value, or by 0.001 when no value is positive; positive values are unchanged and every
\* replaced value is strictly positive and strictly below every originally positive value.
C20_Substitution ==
    h_state = "adjusted" =>
        /\ SubstitutionRules
        /\ Positives = {} => \A i \in NonPositives : 1000 * h_adjusted[i] = Scale

\* C20 as the code has it: when no value is positive the replacement is 0.0005, half
\* of the 0.001 that stands in for the smallest positive value.
C20_SubstitutionHalved ==
    h_state = "adjusted" =>
        /\ SubstitutionRules
        /\ Positives = {} => \A i \in NonPositives : 2000 * h_adjusted[i] = Scale

C20_Witness ==
    /\ h_state = "adjusted"
    /\ h_values = <<0, 10, 5>>
    /\ h_adjusted = <<5 * (Scale \div 2), 10 * Scale, 5 * Scale>>

(***************************************************************************)
(* Blank lines and the accumulation buffer of the record parser            *)
(***************************************************************************)
\* the physical line the step consumed
LineRead == consumed'[Len(consumed')]

C23_Step ==
    consumed' # consumed =>
        /\ (Strip(LineRead) = <<>> /\ pending_lines = <<>>) =>
              UNCHANGED <<pending_lines, raw_row, rows, n_processed, n_malformed>>
        /\ (Strip(LineRead) = <<>> /\ pending_lines # <<>>) =>
              /\ pending_lines' = Append(pending_lines, LineRead)
              /\ raw_row' = Join(pending_lines', "\n")
        /\ Strip(LineRead) # <<>> =>
              raw_row' = Join(Append(pending_lines, LineRead), "\n")

C23_BlankInsideRecord ==
    consumed = <<L_head, L_blank, L_cont, L_tail>> =>
        /\ raw_row = Join(<<L_head, L_blank, L_cont, L_tail>>, "\n")
        /\ Len(rows) = 1
        /\ rows[1].submit_line
              = Some(<<"s", "a">> \o <<"\n">> \o L_blank \o <<"\n">> \o <<" ", "e", "1">>)

LeftOver == ~finished /\ finished' /\ pending_lines # <<>>

\* C26: after every physical line the accumulation buffer is empty or holds text
\* with fewer than 11 delimiters, never a complete record; a buffer left over at
\* the end of the input is dropped with a warning and yields no row.
C26_BufferIncomplete ==
    /\ [](pending_lines = <<>> \/ Delimiters(Join(pending_lines, "\n")) < 11)
    /\ [][LeftOver => /\ rows' = rows
                      /\ n_processed' = n_processed
                      /\ n_malformed' = n_malformed + 1]_vars

C26_Witness ==
    /\ finished
    /\ consumed = <<L_good, L_head, L_cont>>
    /\ pending_lines = <<L_head, L_cont>>
    /\ Len(rows) = 1
    /\ n_malformed = 1

(***************************************************************************)
(* Bounds of a runtime constraint; rows the classifier leaves without type *)
(***************************************************************************)
\* C24: every RuntimeConstraint has at least one of its two bounds present: one
\* with neither a lower nor an upper bound cannot be constructed, and none is
\* ever produced by parsing an expression.
C24_SomeBound ==
    HasConstraint =>
        rt_constraint.min_seconds # None \/ rt_constraint.max_seconds # None

JobTypes == {Some("multi-node"), Some("cpu-only"), Some("1-gpu"), Some("single-node")}

\* C28: determine_job_type returns no type only for a row whose node count is
\* known and at most 0 and whose GPU count is at least 2; for every row whose
\* node count is unknown or at least 1 it returns one of the four categories.
C28_UnresolvedOnly ==
    jt_state = "done" =>
        /\ jt_result = None =>
              /\ jt_row.nodes # None
              /\ jt_row.nodes[1] <= 0
              /\ jt_gpu_count >= 2
        /\ (jt_row.nodes = None \/ jt_row.nodes[1] >= 1) => jt_result \in JobTypes

(***************************************************************************)
(* Properties of the two-panel split                                       *)
(***************************************************************************)
\* number of occurrences of v in values
Occurrences(values, v) == Cardinality({i \in 1..Len(values) : values[i] = v})
HasSplit == h_state \in {"split", "panels"}

\* the cutoff of three distinct substituted values: 0.9 of the way from the
\* second to the largest
C21_Example ==
    (HasSplit /\ h_values = <<5, 10, 0>>) =>
        /\ h_cutoff = 20 * (5 * Scale) + 18 * (5 * Scale)
        /\ h_typical = <<5 * Scale, (5 * Scale) \div 2>>
        /\ h_tail = <<10 * Scale>>

\* C21: with the cutoff being the 95th percentile of the substituted values, every
\* value is in exactly one of typical (value <= cutoff) and tail (value > cutoff),
\* and tail is empty if and only if no value exceeds the cutoff.
C21_Partition ==
    /\ HasSplit =>
          /\ h_cutoff = percentile(Sorted(h_adjusted), 19, 20)
          /\ \A i \in 1..Len(h_adjusted) :
                LET v == h_adjusted[i]
                IN  /\ Occurrences(h_typical, v) + Occurrences(h_tail, v)
                          = Occurrences(h_adjusted, v)
                    /\ 20 * v <= h_cutoff => Occurrences(h_tail, v) = 0
                    /\ 20 * v > h_cutoff => Occurrences(h_typical, v) = 0
          /\ Len(h_typical) + Len(h_tail) = Len(h_adjusted)
          /\ h_tail = <<>> <=> \A i \in 1..Len(h_adjusted) : 20 * h_adjusted[i] <= h_cutoff
    /\ C21_Example

C21_Witness ==
    /\ h_state = "split"
    /\ h_values = <<5, 10, 0>>
    /\ h_tail = <<10 * Scale>>

\* C29: for every non-empty record list the typical subset is non-empty: the
\* smallest substituted value is at most the cutoff, so the typical panel is binned
\* from values at most the cutoff and the fallback to the full list is never taken.
C29_TypicalNonEmpty ==
    /\ HasSplit =>
          /\ 20 * MinOf(h_adjusted) <= h_cutoff
          /\ h_typical # <<>>
    /\ h_state = "panels" =>
          /\ h_panels.typical_data = h_typical
          /\ \A i \in 1..Len(h_panels.typical_data) :
                20 * h_panels.typical_data[i] <= h_cutoff

C29_Witness ==
    /\ h_state = "panels"
    /\ h_values = <<10, 10, 10>>
    /\ h_panels.typical_data = <<10 * Scale, 10 * Scale, 10 * Scale>>
    /\ h_tail = <<>>

(***************************************************************************)
(* histogram.py: _nice_ticks                                               *)
(***************************************************************************)
\* tick values and range ends are kept as whole multiples of 1/TickScale, which
\* holds 0.05 and every sixtieth of a nice value exactly
TickScale == 1200

\* _NICE_TIME_SECONDS
NICE_TIME_SECONDS ==
    <<TickScale \div 20, TickScale \div 10, TickScale \div 5, TickScale \div 2>>
    \o [i \in 1..27 |->
           TickScale * <<1, 2, 5, 10, 15, 30, 45, 60, 120, 300, 600, 900, 1800, 2700,
                         3600, 5400, 7200, 10800, 14400, 21600, 28800, 43200, 64800,
                         86400, 172800, 345600, 604800>>[i]]

\* ticks[::step]
EveryNth(ticks, step) ==
    [i \in 1..((Len(ticks) + step - 1) \div step) |-> ticks[(i - 1) * step + 1]]

\* _nice_ticks without the cap on the number of ticks
nice_ticks_uncapped(min_value, max_value, use_seconds) ==
    LET low == IF min_value <= 0 THEN NICE_TIME_SECONDS[1] ELSE min_value
        min_seconds == IF use_seconds THEN low ELSE low * 60
        max_seconds == IF use_seconds THEN max_value ELSE max_value * 60
        found == SelectSeq(NICE_TIME_SECONDS,
                           LAMBDA tick : min_seconds <= tick /\ tick <= max_seconds)
        ticks == IF found = <<>> THEN <<min_seconds, max_seconds>> ELSE found
    IN  IF min_seconds = max_seconds THEN <<low>>
        ELSE IF use_seconds THEN ticks
        ELSE [i \in 1..Len(ticks) |-> ticks[i] \div 60]

\* _nice_ticks(min_value, max_value, use_seconds=use_seconds)
nice_ticks(min_value, max_value, use_seconds) ==
    LET low == IF min_value <= 0
               THEN MinOf(SelectSeq(NICE_TIME_SECONDS, LAMBDA tick : tick > 0))
               ELSE min_value
        min_seconds == IF use_seconds THEN low ELSE low * 60
        max_seconds == IF use_seconds THEN max_value ELSE max_value * 60
        found == SelectSeq(NICE_TIME_SECONDS,
                           LAMBDA tick : min_seconds <= tick /\ tick <= max_seconds)
        max_ticks == 6
        step == (Len(found) + max_ticks - 1) \div max_ticks
        ticks == IF found = <<>> THEN <<min_seconds, max_seconds>>
                 ELSE IF Len(found) > max_ticks THEN EveryNth(found, step)
                 ELSE found
    IN  IF min_seconds = max_seconds THEN <<low>>
        ELSE IF use_seconds THEN ticks
        ELSE [i \in 1..Len(ticks) |-> ticks[i] \div 60]

\* ---- the ranges handed to _nice_ticks: 0, 1/48, 1, 5, 7, 8, 100 and 10080 ----
RangeEnds ==
    {0, TickScale \div 48, TickScale, 5 * TickScale, 7 * TickScale, 8 * TickScale,
     100 * TickScale, 10080 * TickScale}
TickArguments ==
    {a \in [min_value : RangeEnds, max_value : RangeEnds, use_seconds : BOOLEAN] :
        a.min_value <= a.max_value}

NiceTicks ==
    /\ tk_state = "input"
    /\ tk_state' = "done"
    /\ tk_ticks' = nice_ticks(tk_args.min_value, tk_args.max_value, tk_args.use_seconds)
    /\ UNCHANGED tk_args
    /\ UNCHANGED <<parserVars, partsVars, rtVars, jtVars, filterVars, binVars, histVars, mainVars>>

InitTicks ==
    /\ tk_args \in TickArguments
    /\ tk_state = "input"
    /\ tk_ticks = <<>>
    /\ IdleParser /\ IdleParts /\ IdleRuntime /\ IdleJobType
    /\ IdleFilter /\ IdleBins /\ IdleHistogram /\ IdleMain

NextTicks == NiceTicks

SpecTicks == InitTicks /\ [][NextTicks]_vars

(***************************************************************************)
(* Properties of the tick placement                                        *)
(***************************************************************************)
\* the range is that of a panel: its values are substituted values, all positive
PanelRange == tk_state = "done" /\ 0 < tk_args.min_value

\* a value of the axis in seconds
InSeconds(value) == IF tk_args.use_seconds THEN value ELSE 60 * value

\* the nice values lying within the range
NiceInRange ==
    {NICE_TIME_SECONDS[i] : i \in 1..Len(NICE_TIME_SECONDS)}
        \cap (InSeconds(tk_args.min_value)..InSeconds(tk_args.max_value))

\* the ticks are nice values within the range, in ascending order
NiceAscending ==
    /\ tk_ticks # <<>>
    /\ \A i \in 1..Len(tk_ticks) : InSeconds(tk_ticks[i]) \in NiceInRange
    /\ \A i \in 1..(Len(tk_ticks) - 1) : tk_ticks[i] < tk_ticks[i + 1]

\* C25: for a panel whose data range is [min, max], _nice_ticks returns only nice
\* values lying within that range, in ascending order; when no nice value lies in
\* the range it returns exactly the two endpoint values min and max; and it never
\* returns more than 6 ticks.
C25_NiceTicks ==
    PanelRange =>
        /\ NiceInRange # {} => NiceAscending
        /\ NiceInRange = {} => tk_ticks = <<tk_args.min_value, tk_args.max_value>>
        /\ Len(tk_ticks) <= 6

\* C25 as the code has it: the above for a range with min < max, and the single
\* value min for a range with min = max.
C25_NiceTicksOrSingle ==
    PanelRange =>
        /\ tk_args.min_value < tk_args.max_value =>
              /\ NiceInRange # {} => NiceAscending
              /\ NiceInRange = {} => tk_ticks = <<tk_args.min_value, tk_args.max_value>>
        /\ tk_args.min_value = tk_args.max_value => tk_ticks = <<tk_args.min_value>>
        /\ Len(tk_ticks) <= 6

C25_Witness ==
    /\ tk_state = "done"
    /\ tk_args = [min_value |-> TickScale \div 48, max_value |-> 10080 * TickScale,
                  use_seconds |-> FALSE]
    /\ Len(tk_ticks) = 6
    /\ tk_ticks[1] = TickScale \div 30

(***************************************************************************)
(* cli.py: main                                                            *)
(***************************************************************************)
\* _validate_bins
validate_bins(bins) ==
    IF bins = None THEN Ok(None)
    ELSE IF bins[1] <= 0 THEN CliError
    ELSE Ok(bins)

\* _validate_max_wait
validate_max_wait(value) ==
    IF value = None THEN Ok(None)
    ELSE IF value[1] <= 0 THEN CliError
    ELSE Ok(value)

\* _parse_runtime_filters: [] for no --runtime, else
\* [_parse_runtime_value(value) for value in values], the first CliError raised
parse_runtime_filters(values) ==
    IF values = None \/ values[1] = <<>> THEN Ok(<<>>)
    ELSE LET parsed == [i \in 1..Len(values[1]) |-> parse_runtime_value(values[1][i])]
         IN  IF \E i \in 1..Len(parsed) : parsed[i] = CliError THEN CliError
             ELSE Ok([i \in 1..Len(parsed) |-> parsed[i][2]])

\* the names ZoneInfo knows
z_utc == <<"U", "T", "C">>
z_berlin == <<"E", "u", "r", "o", "p", "e", "/", "B", "e", "r", "l", "i", "n">>
z_phobos == <<"M", "a", "r", "s", "/", "P", "h", "o", "b", "o", "s">>
KnownZones == {z_utc, z_berlin}

\* ensure_timezone: the zone of the name, the local zone (UTC here) for no name,
\* None for the ValueError of an unknown name
ensure_timezone(tz_name) ==
    IF tz_name # None /\ tz_name[1] # <<>>
    THEN IF tz_name[1] \in KnownZones THEN Some(tz_name[1]) ELSE None
    ELSE Some(z_utc)

\* _MONTH_ONLY_PATTERN: ^\d{4}-\d{2}$
IsMonthOnly(value) ==
    /\ Len(value) = 7
    /\ value[5] = "-"
    /\ IsDigits(SubSeq(value, 1, 4))
    /\ IsDigits(SubSeq(value, 6, 7))

\* _parse_month: <<first, last>> instants of the month, None for the ValueError of a
\* month outside 1..12 (or of the year 0, which datetime refuses)
parse_month(value) ==
    LET v == Strip(value)
        year == DigitsVal(SubSeq(v, 1, 4))
        month == DigitsVal(SubSeq(v, 6, 7))
    IN  IF ~IsMonthOnly(v) \/ month \notin 1..12 \/ year < 1 THEN None
        ELSE Some(<<EpochSeconds(year, month, 1),
                    EpochSeconds(year, month, DaysInMonth(year, month)) + 86399>>)

\* parse_cli_datetime_window: <<start_dt, end_dt>>, None for a ValueError
parse_cli_datetime_window(start_value, end_value, default_start, default_end) ==
    LET start_month == start_value # None /\ IsMonthOnly(Strip(start_value[1]))
        start_dt == IF start_value = None THEN Some(default_start)
                    ELSE IF start_month
                    THEN IF parse_month(Strip(start_value[1])) = None THEN None
                         ELSE Some(parse_month(Strip(start_value[1]))[1][1])
                    ELSE parse_datetime(Strip(start_value[1]))
        inferred_end == IF start_month /\ start_dt # None
                        THEN Some(parse_month(Strip(start_value[1]))[1][2])
                        ELSE None
        end_dt == IF end_value = None
                  THEN IF inferred_end # None THEN inferred_end ELSE Some(default_end)
                  ELSE IF IsMonthOnly(Strip(end_value[1]))
                  THEN IF parse_month(Strip(end_value[1])) = None THEN None
                       ELSE Some(parse_month(Strip(end_value[1]))[1][2])
                  ELSE parse_datetime(Strip(end_value[1]))
    IN  IF start_dt = None \/ end_dt = None THEN None
        ELSE Some(<<start_dt[1], end_dt[1]>>)

\* filter_rows as main calls it: the records of the rows no filter skips, in order
filter_rows(input_rows, opts) ==
    LET kept == SelectSeq(input_rows, LAMBDA row : passes(row, opts))
    IN  [i \in 1..Len(kept) |-> JobRecord(kept[i])]

DEFAULT_WINDOW_DAYS == 14

\* ---- the command lines handed to main, and the clock ----
t_month == <<"2", "0", "2", "4", "-", "0", "5">>
t_nodate == <<"s", "o", "o", "n">>
e_from_1h == <<">", "=", "0", "1", ":", "0", "0", ":", "0", "0">>
e_invalid == <<"i", "n", "v", "a", "l", "i", "d">>

\* the --runtime arguments, each with what _parse_runtime_filters makes of it
RuntimeTable ==
    {<<None, Ok(<<>>)>>,
     <<Some(<<e_from_1h>>), Ok(<<RuntimeConstraint(Some(3600), None, TRUE, TRUE)>>)>>,
     <<Some(<<e_from_1h, e_invalid>>), CliError>>}
RuntimeArguments == {r[1] : r \in RuntimeTable}
ParsedRuntimeArguments(values) == (CHOOSE r \in RuntimeTable : r[1] = values)[2]

MainArguments ==
    [bins : {None, Some(0), Some(5)},
     max_wait_hours : {None, Some(0), Some(24)},
     runtime : RuntimeArguments,
     tz : {None, Some(z_berlin), Some(z_phobos)},
     start : {None, Some(t_d1), Some(t_d2), Some(t_month), Some(t_nodate)},
     end : {None, Some(t_d1), Some(t_d2), Some(t_month), Some(t_nodate)},
     dry_run : BOOLEAN,
     now : {EpochSeconds(2024, 4, 30) + 43200, EpochSeconds(2024, 6, 15)}]

\* main returns status, having printed what
Return(status, printed) ==
    /\ m_pc' = "done"
    /\ m_status' = Some(status)
    /\ m_out' = Append(m_out, printed)

\* ---- the actions: main, statement by statement ----
\* parse_arguments, _validate_bins, _validate_max_wait, _parse_runtime_filters
ValidateArguments ==
    /\ m_pc = "start"
    /\ LET bins == validate_bins(m_args.bins)
           max_wait == validate_max_wait(m_args.max_wait_hours)
           runtime_constraints == ParsedRuntimeArguments(m_args.runtime)
       IN  IF bins = CliError \/ max_wait = CliError \/ runtime_constraints = CliError
           THEN Return(2, "error") /\ UNCHANGED m_locals
           ELSE /\ m_pc' = "timezone"
                /\ m_locals' = [m_locals EXCEPT !.bins = bins[2],
                                                !.max_wait = max_wait[2],
                                                !.runtime_constraints = runtime_constraints[2]]
                /\ UNCHANGED <<m_status, m_out>>
    /\ UNCHANGED <<m_args, m_records, m_sacct_runs, m_csv_written, m_hist_calls>>
    /\ UNCHANGED <<parserVars, partsVars, rtVars, jtVars, filterVars, binVars, histVars, tickVars>>

\* tzinfo = ensure_timezone(args.tz)
ResolveTimezone ==
    /\ m_pc = "timezone"
    /\ LET tzinfo == ensure_timezone(m_args.tz)
       IN  IF tzinfo = None
           THEN Return(2, "error") /\ UNCHANGED m_locals
           ELSE /\ m_pc' = "window"
                /\ m_locals' = [m_locals EXCEPT !.tzinfo = tzinfo]
                /\ UNCHANGED <<m_status, m_out>>
    /\ UNCHANGED <<m_args, m_records, m_sacct_runs, m_csv_written, m_hist_calls>>
    /\ UNCHANGED <<parserVars, partsVars, rtVars, jtVars, filterVars, binVars, histVars, tickVars>>

\* the window parsed without the check of its order
ParseWindow_unordered ==
    /\ m_pc = "window"
    /\ LET default_end == m_args.now
           default_start == m_args.now - DEFAULT_WINDOW_DAYS * 86400
           window == parse_cli_datetime_window(m_args.start, m_args.end,
                                               default_start, default_end)
       IN  IF window = None
           THEN Return(2, "error") /\ UNCHANGED m_locals
           ELSE /\ m_pc' = "command"
                /\ m_locals' = [m_locals EXCEPT !.start_dt = window[1][1],
                                                !.end_dt = window[1][2]]
                /\ UNCHANGED <<m_status, m_out>>
    /\ UNCHANGED <<m_args, m_records, m_sacct_runs, m_csv_written, m_hist_calls>>
    /\ UNCHANGED <<parserVars, partsVars, rtVars, jtVars, filterVars, binVars, histVars, tickVars>>

\* now, the defaults, parse_cli_datetime_window, "if start_dt > end_dt"
ParseWindow ==
    /\ m_pc = "window"
    /\ LET default_end == m_args.now
           default_start == m_args.now - DEFAULT_WINDOW_DAYS * 86400
           window == parse_cli_datetime_window(m_args.start, m_args.end,
                                               default_start, default_end)
       IN  IF window = None
           THEN Return(2, "error") /\ UNCHANGED m_locals
           ELSE IF window[1][1] > window[1][2]
           THEN Return(2, "error") /\ UNCHANGED m_locals
           ELSE /\ m_pc' = "command"
                /\ m_locals' = [m_locals EXCEPT !.start_dt = window[1][1],
                                                !.end_dt = window[1][2]]
                /\ UNCHANGED <<m_status, m_out>>
    /\ UNCHANGED <<m_args, m_records, m_sacct_runs, m_csv_written, m_hist_calls>>
    /\ UNCHANGED <<parserVars, partsVars, rtVars, jtVars, filterVars, binVars, histVars, tickVars>>

\* _prepare_filters, build_sacct_command, "if args.dry_run"
BuildCommand ==
    /\ m_pc = "command"
    /\ m_locals' = [m_locals EXCEPT !.command =
                       [start |-> m_locals.start_dt, end |-> m_locals.end_dt,
                        users |-> None, partitions |-> None, include_steps |-> FALSE]]
    /\ IF m_args.dry_run
       THEN Return(0, "command")
       ELSE m_pc' = "sacct" /\ UNCHANGED <<m_status, m_out>>
    /\ UNCHANGED <<m_args, m_records, m_sacct_runs, m_csv_written, m_hist_calls>>
    /\ UNCHANGED <<parserVars, partsVars, rtVars, jtVars, filterVars, binVars, histVars, tickVars>>

\* run_sacct raising SacctError
SacctFails ==
    /\ m_pc = "sacct"
    /\ m_sacct_runs' = m_sacct_runs + 1
    /\ Return(1, "error")
    /\ UNCHANGED <<m_args, m_locals, m_records, m_csv_written, m_hist_calls>>
    /\ UNCHANGED <<parserVars, partsVars, rtVars, jtVars, filterVars, binVars, histVars, tickVars>>

\* run_sacct returning the output parse_sacct_output turns into parsed_rows
SacctAnswers(parsed_rows) ==
    /\ m_pc = "sacct"
    /\ m_sacct_runs' = m_sacct_runs + 1
    /\ m_pc' = "filter"
    /\ m_locals' = [m_locals EXCEPT !.rows = parsed_rows]
    /\ UNCHANGED <<m_args, m_records, m_status, m_out, m_csv_written, m_hist_calls>>
    /\ UNCHANGED <<parserVars, partsVars, rtVars, jtVars, filterVars, binVars, histVars, tickVars>>

\* the options main hands to filter_rows
MainOptions ==
    [DefaultOptions EXCEPT !.max_wait_hours = m_locals.max_wait,
                           !.runtime_filters = Some(m_locals.runtime_constraints)]

\* filter_rows without the check for an empty result
FilterRecords_unchecked ==
    /\ m_pc = "filter"
    /\ m_records' = filter_rows(m_locals.rows, MainOptions)
    /\ m_pc' = "report"
    /\ UNCHANGED <<m_status, m_out>>
    /\ UNCHANGED <<m_args, m_locals, m_sacct_runs, m_csv_written, m_hist_calls>>
    /\ UNCHANGED <<parserVars, partsVars, rtVars, jtVars, filterVars, binVars, histVars, tickVars>>

\* records = filter_rows(...), "if not records"
FilterRecords ==
    /\ m_pc = "filter"
    /\ m_records' = filter_rows(m_locals.rows, MainOptions)
    /\ IF m_records' = <<>>
       THEN Return(1, "no jobs")
       ELSE m_pc' = "report" /\ UNCHANGED <<m_status, m_out>>
    /\ UNCHANGED <<m_args, m_locals, m_sacct_runs, m_csv_written, m_hist_calls>>
    /\ UNCHANGED <<parserVars, partsVars, rtVars, jtVars, filterVars, binVars, histVars, tickVars>>

\* the summary line, the file name prefix, write_results_csv
WriteResults ==
    /\ m_pc = "report"
    /\ m_out' = Append(m_out, "summary")
    /\ m_csv_written' = TRUE
    /\ m_pc' = "histogram"
    /\ UNCHANGED <<m_args, m_locals, m_records, m_status, m_sacct_runs, m_hist_calls>>
    /\ UNCHANGED <<parserVars, partsVars, rtVars, jtVars, filterVars, binVars, histVars, tickVars>>

\* create_histogram and savefig; without matplotlib create_histogram raises
\* RuntimeError, which main lets through
CreateHistogram(has_matplotlib) ==
    /\ m_pc = "histogram"
    /\ m_hist_calls' = m_hist_calls + 1
    /\ IF has_matplotlib
       THEN m_pc' = "done" /\ m_status' = Some(0)
       ELSE m_pc' = "raised" /\ UNCHANGED m_status
    /\ UNCHANGED <<m_args, m_locals, m_records, m_sacct_runs, m_out, m_csv_written>>
    /\ UNCHANGED <<parserVars, partsVars, rtVars, jtVars, filterVars, binVars, histVars, tickVars>>

InitMainState ==
    /\ m_args \in MainArguments
    /\ m_pc = "start"
    /\ m_locals = [bins |-> None, max_wait |-> None, runtime_constraints |-> <<>>,
                   tzinfo |-> None, start_dt |-> 0, end_dt |-> 0, command |-> <<>>,
                   rows |-> <<>>]
    /\ m_records = <<>>
    /\ m_status = None
    /\ m_sacct_runs = 0
    /\ m_out = <<>>
    /\ m_csv_written = FALSE
    /\ m_hist_calls = 0

InitMain ==
    /\ InitMainState
    /\ IdleParser /\ IdleParts /\ IdleRuntime /\ IdleJobType
    /\ IdleFilter /\ IdleBins /\ IdleHistogram /\ IdleTicks

NextMain ==
    \/ ValidateArguments
    \/ ResolveTimezone
    \/ ParseWindow
    \/ BuildCommand
    \/ SacctFails
    \/ \E parsed_rows \in RowSequences : SacctAnswers(parsed_rows)
    \/ FilterRecords
    \/ WriteResults
    \/ \E has_matplotlib \in BOOLEAN : CreateHistogram(has_matplotlib)

SpecMain == InitMain /\ [][NextMain]_vars

\* main and create_histogram, each callable on its own
InitReport == InitMain \/ InitHistogram

NextReport == NextMain \/ NextHistogram

SpecReport == InitReport /\ [][NextReport]_vars

(***************************************************************************)
(* Properties of main                                                      *)
(***************************************************************************)
\* the table of --runtime arguments is what _parse_runtime_filters computes
RuntimeTableParsed == \A r \in RuntimeTable : parse_runtime_filters(r[1]) = r[2]

\* the dates of the command lines: the first and the last instant each one names,
\* in seconds since 2024-01-01
DateInstants ==
    {<<t_d1, 121 * 86400, 121 * 86400>>,
     <<t_d2, 122 * 86400, 122 * 86400>>,
     <<t_month, 121 * 86400, 151 * 86400 + 86399>>}
KnownDates == {d[1] : d \in DateInstants}
FirstInstant(text) == (CHOOSE d \in DateInstants : d[1] = text)[2]
LastInstant(text) == (CHOOSE d \in DateInstants : d[1] = text)[3]

NotPositive(option) == option # None /\ option[1] <= 0
BadRuntime ==
    /\ m_args.runtime # None
    /\ \E i \in 1..Len(m_args.runtime[1]) : m_args.runtime[1][i] \in InvalidRuntimeValues
UnknownZone == m_args.tz # None /\ m_args.tz[1] \notin KnownZones
BadDate ==
    \/ m_args.start # None /\ m_args.start[1] \notin KnownDates
    \/ m_args.end # None /\ m_args.end[1] \notin KnownDates
WindowStart ==
    IF m_args.start = None THEN m_args.now - 14 * 86400 ELSE FirstInstant(m_args.start[1])
WindowEnd ==
    IF m_args.end # None THEN LastInstant(m_args.end[1])
    ELSE IF m_args.start = Some(t_month) THEN LastInstant(t_month)
    ELSE m_args.now
StartAfterEnd == ~BadDate /\ WindowStart > WindowEnd

ConfigurationError ==
    \/ NotPositive(m_args.bins)
    \/ NotPositive(m_args.max_wait_hours)
    \/ BadRuntime
    \/ UnknownZone
    \/ BadDate
    \/ StartAfterEnd

\* main is still before the call of run_sacct
BeforeSacct == m_pc \in {"start", "timezone", "window", "command"}

C27_State ==
    m_pc # "idle" =>
        /\ ConfigurationError =>
              /\ m_sacct_runs = 0
              /\ m_pc \in {"start", "timezone", "window", "done"}
              /\ m_pc = "done" => m_status = Some(2) /\ m_out = <<"error">>
        /\ (~ConfigurationError /\ m_args.dry_run) =>
              /\ m_sacct_runs = 0
              /\ BeforeSacct \/ m_pc = "done"
              /\ m_pc = "done" => m_status = Some(0) /\ m_out = <<"command">>

\* each check of main either ends the run or hands over to the next one
C27_Step ==
    /\ m_pc = "start" =>
          m_pc' = IF NotPositive(m_args.bins) \/ NotPositive(m_args.max_wait_hours) \/ BadRuntime
                  THEN "done" ELSE "timezone"
    /\ m_pc = "timezone" => m_pc' = IF UnknownZone THEN "done" ELSE "window"
    /\ m_pc = "window" => m_pc' = IF BadDate \/ StartAfterEnd THEN "done" ELSE "command"
    /\ m_pc = "command" => m_pc' = IF m_args.dry_run THEN "done" ELSE "sacct"

\* C27: main surfaces configuration errors before any external call: if --bins or
\* --max-wait-hours is not positive, a --runtime expression is invalid, the timezone
\* is unknown, a date is unparsable or start is after end, main returns 2 and sacct
\* is never run; with --dry-run and valid arguments main prints the command,
\* returns 0 and sacct is never run.
C27_ConfigurationFirst ==
    /\ RuntimeTableParsed
    /\ []C27_State
    /\ [][C27_Step]_vars
    /\ [][m_sacct_runs' # m_sacct_runs => ~ConfigurationError /\ ~m_args.dry_run]_vars

C27_Witness ==
    /\ m_pc = "done"
    /\ m_status = Some(2)
    /\ m_args.bins = Some(5) /\ m_args.max_wait_hours = Some(24)
    /\ m_args.runtime = Some(<<e_from_1h>>) /\ m_args.tz = Some(z_berlin)
    /\ m_args.start = Some(t_d2) /\ m_args.end = Some(t_d1)
    /\ m_sacct_runs = 0

\* create_histogram was called without any record and has left its first statement
EmptyCall == h_values = <<>> /\ h_state \notin {"idle", "call"}

\* C22: a histogram is never built from an empty record set: create_histogram
\* called with an empty record list fails with a validation error before computing
\* anything, and main, when filtering leaves no records, exits with status 1
\* without writing the CSV or invoking create_histogram.
C22_NoEmptyHistogram ==
    /\ [](EmptyCall =>
             /\ h_state = "error"
             /\ h_adjusted = <<>> /\ h_cutoff = 0
             /\ h_typical = <<>> /\ h_tail = <<>> /\ h_panels = <<>>)
    /\ [][(h_state = "call" /\ h_values = <<>>) => (h_state' = "error" /\ h_bins' = h_bins)]_vars
    /\ [][(m_pc = "filter" /\ m_records' = <<>>) =>
             /\ m_pc' = "done"
             /\ m_status' = Some(1)
             /\ m_csv_written' = FALSE
             /\ m_hist_calls' = 0]_vars
    /\ []((m_csv_written \/ m_hist_calls > 0) => m_records # <<>>)
    /\ [](m_pc \in {"report", "histogram", "raised"} => m_records # <<>>)

C22_Witness ==
    /\ m_pc = "done"
    /\ m_status = Some(1)
    /\ m_locals.rows = <<row_456>>
    /\ m_args.max_wait_hours = Some(24)
    /\ m_records = <<>>
    /\ m_out = <<"no jobs">>
    /\ ~m_csv_written
    /\ m_hist_calls = 0

====
